---- MODULE Spec2Model ----
(***************************************************************************)
(* A model of the insert-image text layout and compositing engine          *)
(* (src/index.js).  Each component is modelled from its source and checked *)
(* under a specification of its own:                                       *)
(*   SpecEscape  - the SVG text escaping of drawRegionsWithText            *)
(*   SpecFinder  - findEmptyRegions                                        *)
(*   SpecSolver  - calculateOptimalFontSize                                *)
(*   SpecWrap    - the word-level line breaker of insertTextIntoRegions    *)
(*   SpecBatch   - processBatch / processImage                             *)
(* Text is a sequence of one-character strings.  Lengths that the source   *)
(* computes in floating point (font size x ratio) are kept exact, scaled   *)
(* by 1000: one unit is a thousandth of a pixel.                           *)
(***************************************************************************)
EXTENDS Integers, Sequences, FiniteSets, TLC

VARIABLES esc, finder, solver, wrap,
          images, batchSize, nTexts, img, txt, launched, completed,
          successful, attempted, bpc,
          imageCache, currentCacheSize, rd, reads, tw, lay, al, ipc

vars == <<esc, finder, solver, wrap, images, batchSize, nTexts, img, txt,
          launched, completed, successful, attempted, bpc,
          imageCache, currentCacheSize, rd, reads, tw, lay, al, ipc>>

batchVars == <<images, batchSize, nTexts, img, txt, launched, completed,
               successful, attempted, bpc>>

cacheVars == <<imageCache, currentCacheSize, rd, reads>>

\* What the steps of one component leave alone: the other components
notEsc ==
  <<finder, solver, wrap, tw, lay, batchVars, cacheVars, al, ipc>>
notFinder ==
  <<esc, solver, wrap, tw, lay, batchVars, cacheVars, al, ipc>>
notSolver ==
  <<esc, finder, wrap, tw, lay, batchVars, cacheVars, al, ipc>>
notWrap ==
  <<esc, finder, solver, tw, lay, batchVars, cacheVars, al, ipc>>
notBatch ==
  <<esc, finder, solver, wrap, tw, lay, cacheVars, al, ipc>>
notCache ==
  <<esc, finder, solver, wrap, tw, lay, batchVars, al, ipc>>
notWidth ==
  <<esc, finder, solver, wrap, lay, batchVars, cacheVars, al, ipc>>
notLayout ==
  <<esc, finder, solver, wrap, tw, batchVars, cacheVars, al, ipc>>
notAlign ==
  <<esc, finder, solver, wrap, tw, lay, batchVars, cacheVars, ipc>>
notIpc ==
  <<esc, finder, solver, wrap, tw, lay, batchVars, cacheVars, al>>

\* ------------------------------------------------------------------------
\* Generic helpers
\* ------------------------------------------------------------------------

SeqsUpTo(S, n) == UNION {[1..k -> S] : k \in 0..n}

Min(a, b) == IF a <= b THEN a ELSE b

Max(a, b) == IF a >= b THEN a ELSE b

\* ceil(a / b) for a >= 0, b > 0 (Math.ceil of a quotient)
CeilDiv(a, b) == (a + b - 1) \div b

Idle == [done |-> FALSE]

\* ------------------------------------------------------------------------
\* drawRegionsWithText: escaping of the embedded text (src/index.js 588-651)
\* ------------------------------------------------------------------------

\* Longest run text or segment text tried
MaxEscLen == 4

EscChars == {"&", "<", ">", "\"", "'", "l", "t", ";"}

\* String.prototype.replace(/c/g, r): every occurrence of the character c
\* is replaced by the string r, left to right, without rescanning r.
RECURSIVE ReplaceAll(_, _, _)
ReplaceAll(s, c, r) ==
  IF s = <<>> THEN <<>>
  ELSE (IF Head(s) = c THEN r ELSE <<Head(s)>>) \o ReplaceAll(Tail(s), c, r)

AmpEntity == <<"&", "a", "m", "p", ";">>
LtEntity == <<"&", "l", "t", ";">>
GtEntity == <<"&", "g", "t", ";">>
QuotEntity == <<"&", "q", "u", "o", "t", ";">>
AposEntity == <<"&", "a", "p", "o", "s", ";">>

\* A plausible slip: the ampersand replaced last, which escapes the
\* ampersands of the entities written by the earlier passes again.
EscapeAmpLast(s) ==
  ReplaceAll(
    ReplaceAll(
      ReplaceAll(
        ReplaceAll(
          ReplaceAll(s, "<", LtEntity),
          ">", GtEntity),
        "\"", QuotEntity),
      "'", AposEntity),
    "&", AmpEntity)

\* The chain .replace(/&/g,"&amp;").replace(/</g,"&lt;").replace(/>/g,"&gt;")
\*           .replace(/"/g,"&quot;").replace(/'/g,"&apos;")
EscapeXml(s) ==
  ReplaceAll(
    ReplaceAll(
      ReplaceAll(
        ReplaceAll(
          ReplaceAll(s, "&", AmpEntity),
          "<", LtEntity),
        ">", GtEntity),
      "\"", QuotEntity),
    "'", AposEntity)

\* The strings one text object embeds in the markup: one <tspan> body per
\* color segment when the object carries color segments, else the body of
\* the <text> element.
EmbeddedText(obj) ==
  IF Len(obj.colorSegments) > 0
  THEN [i \in 1..Len(obj.colorSegments) |-> EscapeXml(obj.colorSegments[i].text)]
  ELSE <<EscapeXml(obj.text)>>

\* The text objects tried: a run text, with no color segments or with the
\* text cut into two segments.
EscObjects ==
  {[text |-> t, colorSegments |-> segs] :
     t \in SeqsUpTo(EscChars, MaxEscLen),
     segs \in {<<>>}} \cup
  {[text |-> t,
    colorSegments |-> <<[text |-> SubSeq(t, 1, Len(t) \div 2)],
                        [text |-> SubSeq(t, Len(t) \div 2 + 1, Len(t))]>>] :
     t \in SeqsUpTo(EscChars, MaxEscLen)}

InitEscape ==
  /\ esc \in {[done |-> FALSE, obj |-> o, svg |-> <<>>] : o \in EscObjects}

DrawRegionsWithText ==
  /\ ~esc.done
  /\ esc' = [esc EXCEPT !.done = TRUE, !.svg = EmbeddedText(esc.obj)]
  /\ UNCHANGED notEsc

\* ------------------------------------------------------------------------
\* findEmptyRegions (src/index.js 315-429)
\* ------------------------------------------------------------------------

cellSize == 5

\* pixel < 200 marks the cell as occupied
whiteThreshold == 200

\* Tallest light band and tallest dark band of a test image, in pixels
MaxLightBand == 12
MaxDarkBand == 22

\* The minHeight arguments tried (the default is 30; these small values make
\* the same cases happen in small images: multiples of the cell size, and
\* one that is not)
MinHeights == {5, 8, 10}

\* A test image is a stack of horizontal bands.  Width 3 is one grid cell
\* wide, width 7 is two cells wide with a partial second cell.
\*   light: every pixel 200 (the lowest intensity that is not occupied)
\*   dark:  in a "full" image every pixel 199; in a "spot" image only the
\*          last pixel of each row is 0 and the others are 255
ImageStyles == {[width |-> 3, dark |-> "full"], [width |-> 7, dark |-> "spot"]}

BandKinds == {"light", "dark"}

Band(k, h) == [kind |-> k, h |-> h]

MaxBandOf(k) == IF k = "light" THEN MaxLightBand ELSE MaxDarkBand

OtherKind(k) == IF k = "light" THEN "dark" ELSE "light"

\* Band stacks of n bands of alternating kind, the first of kind k
RECURSIVE BandStacks(_, _)
BandStacks(n, k) ==
  IF n = 0 THEN {<<>>}
  ELSE {<<Band(k, h)>> \o rest :
          h \in 1..MaxBandOf(k), rest \in BandStacks(n - 1, OtherKind(k))}

RECURSIVE RowsOf(_)
RowsOf(bands) ==
  IF bands = <<>> THEN <<>>
  ELSE [i \in 1..Head(bands).h |-> Head(bands).kind] \o RowsOf(Tail(bands))

\* The decoded raster: info.width, info.height and data[y * width + x]
Raster(style, bands) ==
  LET rows == RowsOf(bands)
  IN [width |-> style.width, height |-> Len(rows), dark |-> style.dark,
      rows |-> rows]

Pixel(image, x, y) ==
  IF image.rows[y + 1] = "light" THEN 200
  ELSE IF image.dark = "full" THEN 199
  ELSE IF x = image.width - 1 THEN 0 ELSE 255

\* Three light bands of two grid rows each, with dark bands of one, three
\* or four grid rows between them
ChainBands ==
  {<<Band("light", 10), Band("dark", d1), Band("light", 10),
     Band("dark", d2), Band("light", 10)>> : d1 \in {5, 15, 20},
                                            d2 \in {5, 15, 20}}

\* The band stacks tried: one, two or three bands, and the chains
TestBands ==
  UNION {BandStacks(n, k) : n \in {1, 2, 3}, k \in BandKinds} \cup ChainBands

\* A slip in the threshold: pixel <= 200 instead of pixel < 200
IsOccupiedPixelInclusive(pixel) == pixel <= whiteThreshold

IsOccupiedPixel(pixel) == pixel < whiteThreshold

\* grid[gridY * gridWidth + gridX] = 1: the cells holding an occupied pixel
OccupiedCells(image) ==
  {<<x \div cellSize, y \div cellSize>> :
     <<x, y>> \in {p \in (0..image.width - 1) \X (0..image.height - 1) :
                     IsOccupiedPixel(Pixel(image, p[1], p[2]))}}

\* A slip that looks at the first cell of the row only
IsRowEmptyFirstCell(occ, gridWidth, y) == <<0, y>> \notin occ

IsRowEmpty(occ, gridWidth, y) == \A x \in 0..gridWidth - 1 : <<x, y>> \notin occ

NewRegion(image, startY, emptyHeight) ==
  [x |-> 0, y |-> startY * cellSize, width |-> image.width,
   height |-> emptyHeight * cellSize]

\* The row scan: the loop over y with currentEmptyHeight (cur), startY and
\* regions, then the check of the last run after the loop.
RECURSIVE ScanRows(_, _, _, _, _, _, _)
ScanRows(image, occ, minHeight, y, cur, startY, regions) ==
  LET gridWidth == CeilDiv(image.width, cellSize)
      gridHeight == CeilDiv(image.height, cellSize)
      qualifies == cur >= CeilDiv(minHeight, cellSize)
      pushed == IF qualifies
                THEN Append(regions, NewRegion(image, startY, cur))
                ELSE regions
  IN IF y >= gridHeight THEN pushed
     ELSE IF IsRowEmpty(occ, gridWidth, y)
          THEN ScanRows(image, occ, minHeight, y + 1, cur + 1,
                        IF cur = 0 THEN y ELSE startY, regions)
          ELSE ScanRows(image, occ, minHeight, y + 1, 0, startY, pushed)

\* A slip in the merge test: <= instead of <
AreCloseInclusive(currentRegion, region) ==
  region.y - (currentRegion.y + currentRegion.height) <= cellSize * 4

AreClose(currentRegion, region) ==
  region.y - (currentRegion.y + currentRegion.height) < cellSize * 4

\* A slip that adds the two heights and forgets the gap between the bands
MergedHeightWithoutGap(currentRegion, region) ==
  currentRegion.height + region.height

\* currentRegion.height = region.y + region.height - currentRegion.y
MergedHeight(currentRegion, region) ==
  region.y + region.height - currentRegion.y

\* The merge loop: currentRegion (cur; <<>> stands for null) and mergedRegions
RECURSIVE MergeRegions(_, _, _)
MergeRegions(regions, cur, merged) ==
  IF regions = <<>>
  THEN (IF cur = <<>> THEN merged ELSE Append(merged, cur[1]))
  ELSE LET region == Head(regions)
       IN IF cur = <<>>
          THEN MergeRegions(Tail(regions), <<region>>, merged)
          ELSE IF AreClose(cur[1], region)
               THEN MergeRegions(
                      Tail(regions),
                      <<[cur[1] EXCEPT !.height = MergedHeight(cur[1], region)]>>,
                      merged)
               ELSE MergeRegions(Tail(regions), <<region>>,
                                 Append(merged, cur[1]))

KeepRegion(region, minHeight) == region.height >= minHeight

WithArea(region) ==
  [type |-> "rectangle", x |-> region.x, y |-> region.y,
   width |-> region.width, height |-> region.height,
   area |-> region.width * region.height]

\* Array.prototype.sort((a, b) => b.area - a.area): stable, area descending
RECURSIVE InsertByArea(_, _)
InsertByArea(sorted, r) ==
  IF sorted = <<>> THEN <<r>>
  ELSE IF Head(sorted).area >= r.area
       THEN <<Head(sorted)>> \o InsertByArea(Tail(sorted), r)
       ELSE <<r>> \o sorted

RECURSIVE SortByAreaDesc(_)
SortByAreaDesc(rs) ==
  IF rs = <<>> THEN <<>>
  ELSE InsertByArea(SortByAreaDesc(SubSeq(rs, 1, Len(rs) - 1)), rs[Len(rs)])

\* A slip in the comparator: a.area - b.area sorts ascending
RECURSIVE InsertByAreaAsc(_, _)
InsertByAreaAsc(sorted, r) ==
  IF sorted = <<>> THEN <<r>>
  ELSE IF Head(sorted).area <= r.area
       THEN <<Head(sorted)>> \o InsertByAreaAsc(Tail(sorted), r)
       ELSE <<r>> \o sorted

RECURSIVE SortByAreaAsc(_)
SortByAreaAsc(rs) ==
  IF rs = <<>> THEN <<>>
  ELSE InsertByAreaAsc(SortByAreaAsc(SubSeq(rs, 1, Len(rs) - 1)), rs[Len(rs)])

SortRegions(rs) == SortByAreaDesc(rs)

RECURSIVE FilterRegions(_, _)
FilterRegions(rs, minHeight) ==
  IF rs = <<>> THEN <<>>
  ELSE (IF KeepRegion(Head(rs), minHeight) THEN <<Head(rs)>> ELSE <<>>)
       \o FilterRegions(Tail(rs), minHeight)

\* The row runs that qualify, before merging
RawRegions(image, minHeight) ==
  ScanRows(image, OccupiedCells(image), minHeight, 0, 0, 0, <<>>)

findEmptyRegions(image, minHeight) ==
  LET merged == MergeRegions(RawRegions(image, minHeight), <<>>, <<>>)
      kept == FilterRegions(merged, minHeight)
  IN SortRegions([i \in 1..Len(kept) |-> WithArea(kept[i])])

InitFinder ==
  /\ finder \in {[done |-> FALSE, style |-> st, bands |-> b, minHeight |-> mh,
                  regions |-> <<>>] :
                   st \in ImageStyles, b \in TestBands, mh \in MinHeights}

FindEmptyRegions ==
  /\ ~finder.done
  /\ finder' = [finder EXCEPT
                  !.done = TRUE,
                  !.regions = findEmptyRegions(Raster(finder.style, finder.bands),
                                               finder.minHeight)]
  /\ UNCHANGED notFinder


\* ------------------------------------------------------------------------
\* calculateTextWidth (src/index.js 1169-1199)
\* ------------------------------------------------------------------------

narrowChars ==
  {"i", "j", "l", ",", ".", "'", "\"", "|", "!", "(", ")", "[", "]", "{",
   "}", "/", "-", "_"}

wideChars ==
  {"m", "w", "W", "M", "@", "Q", "O", "C", "D", "G", "%", "&", "#", "A", "H",
   "N", "U", "X"}

spaceChars == {" ", "\t"}

\* A slip that gives white space no width
WidthRatioNoSpace(char) ==
  IF char \in spaceChars THEN 0
  ELSE IF char \in narrowChars THEN 35
  ELSE IF char \in wideChars THEN 75
  ELSE 55

\* widthRatios, in hundredths
WidthRatio(char) ==
  IF char \in spaceChars THEN 30
  ELSE IF char \in narrowChars THEN 35
  ELSE IF char \in wideChars THEN 75
  ELSE 55

\* calculateTextWidth(text, fontSize) in thousandths of a pixel; fontSize10
\* is the font size in tenths (10 x size for normal text, 11 x size for the
\* bold size, size x 1.1).
RECURSIVE calculateTextWidth(_, _)
calculateTextWidth(text, fontSize10) ==
  IF text = <<>> THEN 0
  ELSE fontSize10 * WidthRatio(Head(text))
       + calculateTextWidth(Tail(text), fontSize10)

\* ------------------------------------------------------------------------
\* calculateOptimalFontSize (src/index.js 1202-1339)
\* ------------------------------------------------------------------------

minFontSize == 14
maxFontSize == 72
maxIterations == 10

\* effectiveWidth = region.width * 0.85, in thousandths of a pixel
EffectiveWidth(region) == region.width * 850

\* effectiveHeight = region.height * 0.9, in tenths of a pixel
EffectiveHeight(region) == region.height * 9

\* lineHeight = fontSize * 1.2, in tenths of a pixel
LineHeight10(fontSize) == fontSize * 12

\* lineHeight * 0.5, in tenths of a pixel
HalfLineHeight10(fontSize) == fontSize * 6

\* position >= seg.start && position < seg.start + seg.length, for some seg
InSomeSegment(segs, position) ==
  \E i \in 1..Len(segs) :
    position >= segs[i].start /\ position < segs[i].start + segs[i].length

RECURSIVE SumSegLengths(_)
SumSegLengths(segs) ==
  IF segs = <<>> THEN 0 ELSE Head(segs).length + SumSegLengths(Tail(segs))

RECURSIVE TotalChars(_)
TotalChars(paragraphs) ==
  IF paragraphs = <<>> THEN 0
  ELSE Len(Head(paragraphs).text) + TotalChars(Tail(paragraphs))

RECURSIVE BoldChars(_)
BoldChars(paragraphs) ==
  IF paragraphs = <<>> THEN 0
  ELSE SumSegLengths(Head(paragraphs).boldSegments)
       + BoldChars(Tail(paragraphs))

\* A JavaScript number that may be NaN
Num(v) == [nan |-> FALSE, value |-> v]

NaN == [nan |-> TRUE, value |-> 0]

\* initialSize = Math.min(floor(effectiveHeight / (n * 1.5)),
\*                        floor(effectiveWidth / (20 + boldRatio * 5)))
\* with boldRatio = boldChars / totalChars.  With no characters at all the
\* ratio is 0/0 = NaN and so is the minimum (or x/0 = Infinity, which makes
\* the second term 0).
InitialSize(region, paragraphs) ==
  LET total == TotalChars(paragraphs)
      bold == BoldChars(paragraphs)
      byHeight == (region.height * 9 * 2) \div (Len(paragraphs) * 10 * 3)
  IN IF total = 0
     THEN (IF bold = 0 THEN NaN ELSE Num(Min(byHeight, 0)))
     ELSE Num(Min(byHeight,
                  (region.width * 85 * total)
                    \div (2000 * total + 500 * bold)))

\* The character loop of one paragraph in one trial.  st holds currentLine
\* (its length), lineWidth, position, the number of testLines pushed so far,
\* totalHeight and fitsFailed (set together with the break).
RECURSIVE SimulateChars(_, _, _, _, _)
SimulateChars(chars, para, fontSize, region, st) ==
  IF chars = <<>> \/ st.fitsFailed THEN st
  ELSE LET isBold == InSomeSegment(para.boldSegments, st.position)
           charWidth == calculateTextWidth(
                          <<Head(chars)>>,
                          IF isBold THEN fontSize * 11 ELSE fontSize * 10)
       IN IF st.lineWidth + charWidth <= EffectiveWidth(region)
          THEN SimulateChars(
                 Tail(chars), para, fontSize, region,
                 [st EXCEPT !.currentLine = @ + 1,
                            !.lineWidth = @ + charWidth,
                            !.position = @ + 1])
          ELSE IF st.currentLine > 0
                  /\ st.totalHeight + LineHeight10(fontSize)
                       > EffectiveHeight(region)
               THEN [st EXCEPT !.testLines = @ + 1,
                               !.totalHeight = @ + LineHeight10(fontSize),
                               !.fitsFailed = TRUE]
               ELSE SimulateChars(
                      Tail(chars), para, fontSize, region,
                      [st EXCEPT
                         !.testLines = IF st.currentLine > 0 THEN @ + 1 ELSE @,
                         !.totalHeight = IF st.currentLine > 0
                                         THEN @ + LineHeight10(fontSize)
                                         ELSE @,
                         !.currentLine = 1,
                         !.lineWidth = charWidth,
                         !.position = @ + 1])

\* paragraphs.forEach of one trial: acc holds testLines (their number),
\* totalHeight and fitsFailed.  A paragraph visited after fitsFailed was set
\* cannot clear it, and a failed trial's lines are dropped.
RECURSIVE SimulateParagraphs(_, _, _, _, _)
SimulateParagraphs(paragraphs, index, fontSize, region, acc) ==
  IF index > Len(paragraphs) THEN acc
  ELSE LET para == paragraphs[index]
           spaced == IF index > 1
                     THEN acc.totalHeight + HalfLineHeight10(fontSize)
                     ELSE acc.totalHeight
           st == SimulateChars(
                   para.text, para, fontSize, region,
                   [currentLine |-> 0, lineWidth |-> 0, position |-> 0,
                    testLines |-> acc.testLines, totalHeight |-> spaced,
                    fitsFailed |-> acc.fitsFailed])
           last == IF ~st.fitsFailed /\ st.currentLine > 0
                   THEN [testLines |-> st.testLines + 1,
                         totalHeight |-> st.totalHeight + LineHeight10(fontSize),
                         fitsFailed |-> st.totalHeight + LineHeight10(fontSize)
                                          > EffectiveHeight(region)]
                   ELSE [testLines |-> st.testLines,
                         totalHeight |-> st.totalHeight,
                         fitsFailed |-> st.fitsFailed]
       IN SimulateParagraphs(paragraphs, index + 1, fontSize, region, last)

Trial(region, paragraphs, fontSize) ==
  SimulateParagraphs(paragraphs, 1, fontSize, region,
                     [testLines |-> 0, totalHeight |-> 0, fitsFailed |-> FALSE])

\* A slip that leaves totalHeight <= effectiveHeight out of the test
FitsIgnoringHeight(region, paragraphs, fontSize) ==
  LET t == Trial(region, paragraphs, fontSize)
  IN ~t.fitsFailed /\ t.testLines > 0

\* !fitsFailed && totalHeight <= effectiveHeight && testLines.length > 0
Fits(region, paragraphs, fontSize) ==
  LET t == Trial(region, paragraphs, fontSize)
  IN ~t.fitsFailed /\ t.totalHeight <= EffectiveHeight(region)
     /\ t.testLines > 0

\* A slip in the bisection: a fitting trial moves the lower end to fontSize
\* + 2, which skips a candidate size
NextMinSizeSkipping(fontSize) == fontSize + 2

NextMinSize(fontSize) == fontSize + 1

\* The while loop of the binary search
RECURSIVE BinarySearch(_, _, _, _, _, _, _)
BinarySearch(region, paragraphs, minSize, maxSize, bestSize, bestLines, iterations) ==
  IF ~(minSize <= maxSize /\ iterations < maxIterations)
  THEN [bestSize |-> bestSize, bestLines |-> bestLines,
        iterations |-> iterations]
  ELSE LET fontSize == (minSize + maxSize) \div 2
       IN IF Fits(region, paragraphs, fontSize)
          THEN BinarySearch(region, paragraphs, NextMinSize(fontSize), maxSize,
                            Num(fontSize),
                            Trial(region, paragraphs, fontSize).testLines,
                            iterations + 1)
          ELSE BinarySearch(region, paragraphs, minSize, fontSize - 1,
                            bestSize, bestLines, iterations + 1)

\* The font plan returned; boldFontSize10 is boldFontSize = bestSize * 1.1 in
\* tenths, lineSpacingRatio10 the ratio 1.2 in tenths.  isNaN tells that
\* normalFontSize and boldFontSize are NaN.  iterations is the loop counter
\* at the return.
calculateOptimalFontSize(region, paragraphs) ==
  LET r == BinarySearch(region, paragraphs, minFontSize, maxFontSize,
                        InitialSize(region, paragraphs), 0, 0)
  IN [normalFontSize |-> r.bestSize.value,
      boldFontSize10 |-> r.bestSize.value * 11,
      isNaN |-> r.bestSize.nan,
      lineSpacingRatio10 |-> 12,
      estimatedLines |-> r.bestLines,
      iterations |-> r.iterations,
      raised |-> FALSE]

\* The plan returned by the catch block: { normalFontSize: 20,
\* boldFontSize: 22, lineSpacingRatio: 1.2, estimatedLines:
\* paragraphs.length }
DefaultPlan(paragraphs) ==
  [normalFontSize |-> 20,
   boldFontSize10 |-> 220,
   isNaN |-> FALSE,
   lineSpacingRatio10 |-> 12,
   estimatedLines |-> Len(paragraphs),
   iterations |-> 0,
   raised |-> FALSE]

\* A solver without its try/catch: the error reaches the caller
RaiseOnError(paragraphs) == [DefaultPlan(paragraphs) EXCEPT !.raised = TRUE]

\* catch (error) { ...; return { ... }; }
PlanOnError(paragraphs) == DefaultPlan(paragraphs)

\* Longest pattern and most repetitions of it in a paragraph tried
MaxPattern == 2
MaxRepeat == 8

\* A narrow character, a wide one and the space
SolverChars == {"i", "M", " "}

RECURSIVE Repeat(_, _)
Repeat(pattern, k) == IF k = 0 THEN <<>> ELSE pattern \o Repeat(pattern, k - 1)

SolverTexts ==
  {Repeat(p, k) : p \in SeqsUpTo(SolverChars, MaxPattern) \ {<<>>},
                  k \in 1..MaxRepeat}

Paragraph(text, color, bold) ==
  [text |-> text, colorSegments |-> color, boldSegments |-> bold]

\* No bold, all bold, or the second and third characters bold
BoldChoices(text) ==
  {<<>>, <<[start |-> 0, length |-> Len(text)]>>,
   <<[start |-> 1, length |-> 2]>>}

SolverParagraphs ==
  UNION {{Paragraph(t, <<>>, b) : b \in BoldChoices(t)} : t \in SolverTexts}

\* One paragraph; the paragraph followed by an empty one; the paragraph
\* twice.  (The text of a text block is trimmed and not empty, so some
\* paragraph holds a character.)
SolverParagraphLists ==
  UNION {{<<p>>, <<p, Paragraph(<<>>, <<>>, <<>>)>>, <<p, p>>} :
           p \in SolverParagraphs}

\* Regions that pass the filter width >= 100 and height >= 30
SolverRegions ==
  {[x |-> 0, y |-> 0, width |-> w, height |-> h] :
     w \in {100, 160}, h \in {30, 60, 200}}

\* throws: some computation inside the try throws (a paragraph whose
\* boldSegments is not an array makes para.boldSegments.forEach throw)
InitSolver ==
  /\ solver \in {[done |-> FALSE, region |-> r, paragraphs |-> ps,
                  throws |-> t, plan |-> <<>>] :
                   r \in SolverRegions, ps \in SolverParagraphLists,
                   t \in BOOLEAN}

CalculateOptimalFontSize ==
  /\ ~solver.done
  /\ solver' = [solver EXCEPT
                  !.done = TRUE,
                  !.plan = IF solver.throws
                           THEN PlanOnError(solver.paragraphs)
                           ELSE calculateOptimalFontSize(solver.region,
                                                         solver.paragraphs)]
  /\ UNCHANGED notSolver

\* ------------------------------------------------------------------------
\* insertTextIntoRegions (src/index.js 1440-1702)
\* ------------------------------------------------------------------------

minRegionWidth == 100
minRegionHeight == 30

\* String.prototype.indexOf(pattern, from): the first index >= from (0-based)
\* at which pattern occurs in text, -1 when there is none.  The empty
\* pattern is found at min(from, text.length).
IndexOf(text, pattern, from) ==
  LET hits == {i \in from..(Len(text) - Len(pattern)) :
                 SubSeq(text, i + 1, i + Len(pattern)) = pattern}
  IN IF pattern = <<>> THEN Min(from, Len(text))
     ELSE IF hits = {} THEN -1
     ELSE CHOOSE i \in hits : \A j \in hits : i <= j

\* String.prototype.split(sep) for a one-character separator: the pieces
\* between the separators, empty pieces included
RECURSIVE SplitFrom(_, _, _)
SplitFrom(text, sep, piece) ==
  IF text = <<>> THEN <<piece>>
  ELSE IF Head(text) = sep
       THEN <<piece>> \o SplitFrom(Tail(text), sep, <<>>)
       ELSE SplitFrom(Tail(text), sep, Append(piece, Head(text)))

Split(text, sep) == SplitFrom(text, sep, <<>>)

\* A slip that takes the regions unfiltered
ValidRegionsUnfiltered(emptyRegions) == emptyRegions

\* regions = emptyRegions.filter(r => r.width >= 100 && r.height >= 30)
RECURSIVE ValidRegions(_)
ValidRegions(emptyRegions) ==
  IF emptyRegions = <<>> THEN <<>>
  ELSE (IF Head(emptyRegions).width >= minRegionWidth
           /\ Head(emptyRegions).height >= minRegionHeight
        THEN <<Head(emptyRegions)>> ELSE <<>>)
       \o ValidRegions(Tail(emptyRegions))

\* .filter(seg => seg.start >= paraStart && seg.start < paraStart +
\* para.length).map(seg => ({...seg, start: seg.start - paraStart}))
RECURSIVE ParagraphSegments(_, _, _)
ParagraphSegments(segs, paraStart, paraLength) ==
  IF segs = <<>> THEN <<>>
  ELSE (IF Head(segs).start >= paraStart
           /\ Head(segs).start < paraStart + paraLength
        THEN <<[Head(segs) EXCEPT !.start = @ - paraStart]>>
        ELSE <<>>)
       \o ParagraphSegments(Tail(segs), paraStart, paraLength)

\* paraStart = text.indexOf(para)
ParagraphStart(text, para) == IndexOf(text, para, 0)

\* text.split("\n").map(...): the paragraphs with their rebased segments
SplitParagraphs(textContent) ==
  LET paras == Split(textContent.text, "\n")
  IN [i \in 1..Len(paras) |->
        LET paraStart == ParagraphStart(textContent.text, paras[i])
        IN [text |-> paras[i],
            colorSegments |-> ParagraphSegments(textContent.colorSegments,
                                                paraStart, Len(paras[i])),
            boldSegments |-> ParagraphSegments(textContent.boldSegments,
                                               paraStart, Len(paras[i]))]]

\* seg.start <= start && seg.start + seg.length >= start + length
Covers(seg, start, length) ==
  seg.start <= start /\ seg.start + seg.length >= start + length

CoveredBySome(segs, start, length) ==
  \E i \in 1..Len(segs) : Covers(segs[i], start, length)

\* paragraph.colorSegments.find(...)?.color || "#000000"
WordColor(segs, start, length) ==
  IF CoveredBySome(segs, start, length)
  THEN segs[CHOOSE i \in 1..Len(segs) :
              /\ Covers(segs[i], start, length)
              /\ \A j \in 1..(i - 1) : ~Covers(segs[j], start, length)].color
  ELSE "#000000"

\* The paragraph-space marker pushed before every paragraph but the first
ParagraphSpaceLine ==
  [text |-> <<>>, isNewParagraph |-> TRUE, isBold |-> FALSE,
   isParagraphSpace |-> TRUE, colorSegments |-> <<>>, width |-> 0]

\* A text line pushed to wrappedLines.  width is currentWidth, the line's
\* estimated width in thousandths of a pixel, at the moment the line is
\* pushed (the source does not store it in the line).  The source leaves
\* isParagraphSpace undefined on a text line.
TextLine(paragraph, w) ==
  [text |-> w.currentLine, isNewParagraph |-> FALSE,
   isBold |-> CoveredBySome(paragraph.boldSegments, w.currentLineStart,
                            Len(w.currentLine)),
   isParagraphSpace |-> FALSE, colorSegments |-> w.currentLineColors,
   width |-> w.currentWidth]

\* if (currentWidth + wordWidth <= effectiveWidth)
WordFits(currentLine, currentWidth, wordWidth, spaceWidth, effectiveWidth) ==
  currentWidth + wordWidth <= effectiveWidth

\* words.forEach of one paragraph.  w holds currentLine, currentWidth,
\* currentLineStart, currentLineColors and the lines pushed so far.
RECURSIVE WrapWords(_, _, _, _, _)
WrapWords(words, paragraph, plan, region, w) ==
  IF words = <<>> THEN w
  ELSE
    LET word == Head(words)
        wordStart == IndexOf(paragraph.text, word, w.currentLineStart)
        isBold == CoveredBySome(paragraph.boldSegments, wordStart, Len(word))
        wordColor == WordColor(paragraph.colorSegments, wordStart, Len(word))
        wordWidth == calculateTextWidth(
                       word,
                       IF isBold THEN plan.boldFontSize10
                       ELSE plan.normalFontSize * 10)
        spaceWidth == calculateTextWidth(<<" ">>, plan.normalFontSize * 10)
    IN IF WordFits(w.currentLine, w.currentWidth, wordWidth, spaceWidth,
                   EffectiveWidth(region))
       THEN LET spaced == IF w.currentLine # <<>>
                          THEN [line |-> Append(w.currentLine, " "),
                                width |-> w.currentWidth + spaceWidth]
                          ELSE [line |-> w.currentLine,
                                width |-> w.currentWidth]
                line == spaced.line \o word
            IN WrapWords(
                 Tail(words), paragraph, plan, region,
                 [w EXCEPT
                    !.currentLine = line,
                    !.currentWidth = spaced.width + wordWidth,
                    !.currentLineColors =
                       Append(@, [text |-> word,
                                  start |-> Len(line) - Len(word),
                                  color |-> wordColor])])
       ELSE WrapWords(
              Tail(words), paragraph, plan, region,
              [currentLine |-> word,
               currentWidth |-> wordWidth,
               currentLineStart |-> wordStart,
               currentLineColors |-> <<[text |-> word, start |-> 0,
                                        color |-> wordColor]>>,
               lines |-> IF w.currentLine # <<>>
                         THEN Append(w.lines, TextLine(paragraph, w))
                         ELSE w.lines])

\* A slip that forgets the line still being built when the words run out
WrapParagraphDroppingLast(paragraph, plan, region) ==
  LET words == Split(paragraph.text, " ")
  IN WrapWords(
       words, paragraph, plan, region,
       [currentLine |-> <<>>, currentWidth |-> 0,
        currentLineStart |-> IndexOf(paragraph.text, words[1], 0),
        currentLineColors |-> <<>>, lines |-> <<>>]).lines

\* The lines one paragraph adds to wrappedLines
WrapParagraph(paragraph, plan, region) ==
  LET words == Split(paragraph.text, " ")
      w == WrapWords(
             words, paragraph, plan, region,
             [currentLine |-> <<>>, currentWidth |-> 0,
              currentLineStart |-> IndexOf(paragraph.text, words[1], 0),
              currentLineColors |-> <<>>, lines |-> <<>>])
  IN IF w.currentLine # <<>>
     THEN Append(w.lines, TextLine(paragraph, w))
     ELSE w.lines

\* A slip that forgets isFirstParagraph: a marker before every paragraph
RECURSIVE WrapAllMarkerEvery(_, _, _, _)
WrapAllMarkerEvery(paragraphs, pIndex, plan, region) ==
  IF pIndex > Len(paragraphs) THEN <<>>
  ELSE <<ParagraphSpaceLine>>
       \o WrapParagraph(paragraphs[pIndex], plan, region)
       \o WrapAllMarkerEvery(paragraphs, pIndex + 1, plan, region)

\* paragraphs.forEach: wrappedLines
RECURSIVE WrapAll(_, _, _, _)
WrapAll(paragraphs, pIndex, plan, region) ==
  IF pIndex > Len(paragraphs) THEN <<>>
  ELSE (IF pIndex > 1 THEN <<ParagraphSpaceLine>> ELSE <<>>)
       \o WrapParagraph(paragraphs[pIndex], plan, region)
       \o WrapAll(paragraphs, pIndex + 1, plan, region)

\* Vertical lengths below are in two-hundredths of a pixel, which keeps
\* lineHeight * 0.5, lineHeight * 1.1, lineHeight * 1.3, fontSize * 1.1 / 2
\* and (region.height - totalTextHeight) / 2 whole numbers.

\* lineHeight = normalFontSize * 1.2
LineHeight200(normalFontSize) == normalFontSize * 240

\* paragraphSpacing = lineHeight * (wrappedLines.length > 10 ? 1.1 : 1.3)
ParagraphSpacing200(wrappedLines, normalFontSize) ==
  IF Len(wrappedLines) > 10 THEN normalFontSize * 264
  ELSE normalFontSize * 312

\* The height the reduce adds for one line
LineAdvanceInTotal(wrappedLines, line, normalFontSize) ==
  IF line.isParagraphSpace
  THEN (IF Len(wrappedLines) > 10 THEN normalFontSize * 120
        ELSE ParagraphSpacing200(wrappedLines, normalFontSize))
  ELSE LineHeight200(normalFontSize)

\* totalTextHeight = wrappedLines.reduce(...), over the first n lines
RECURSIVE TotalTextHeight200(_, _, _)
TotalTextHeight200(wrappedLines, n, normalFontSize) ==
  IF n = 0 THEN 0
  ELSE TotalTextHeight200(wrappedLines, n - 1, normalFontSize)
       + LineAdvanceInTotal(wrappedLines, wrappedLines[n], normalFontSize)

RECURSIVE SumTextLengths(_)
SumTextLengths(textLines) ==
  IF textLines = <<>> THEN 0
  ELSE Len(Head(textLines).text) + SumTextLengths(Tail(textLines))

\* A slip that tests heightRatio > 0.8 before anything else
determineVerticalAlignmentTallFirst(region, totalTextHeight200, textLines) ==
  IF totalTextHeight200 * 10 > region.height * 200 * 8 THEN "top"
  ELSE IF totalTextHeight200 * 2 < region.height * 200
          \/ (/\ Len(textLines) > 0
              /\ SumTextLengths(textLines) < 30 * Len(textLines)
              /\ Len(textLines) < 5)
       THEN "center"
       ELSE IF \E i \in 1..Len(textLines) : Len(textLines[i].text) > 50
            THEN "top" ELSE "center"

\* determineVerticalAlignment(region, totalTextHeight, textLines).
\* contentDensity < 30 is sum / length < 30; with no line at all the density
\* is 0/0 = NaN and the comparison is false.
determineVerticalAlignment(region, totalTextHeight200, textLines) ==
  LET isSparseContent ==
        /\ Len(textLines) > 0
        /\ SumTextLengths(textLines) < 30 * Len(textLines)
        /\ Len(textLines) < 5
      hasLongLines ==
        \E i \in 1..Len(textLines) : Len(textLines[i].text) > 50
  IN IF totalTextHeight200 * 2 < region.height * 200 \/ isSparseContent
     THEN "center"
     ELSE IF totalTextHeight200 * 10 > region.height * 200 * 8
          THEN "top"
          ELSE IF hasLongLines THEN "top" ELSE "center"

\* The switch on verticalAlignment
AlignedStartY200(region, totalTextHeight200, normalFontSize, alignment) ==
  LET topPadding == normalFontSize * 120
      bottomPadding == normalFontSize * 120
  IN IF alignment = "top" THEN region.y * 200 + topPadding
     ELSE IF alignment = "bottom"
          THEN region.y * 200 + region.height * 200 - totalTextHeight200
               - bottomPadding
          ELSE region.y * 200
               + (region.height * 200 - totalTextHeight200) \div 2

\* startY = Math.max(region.y + topPadding, Math.min(startY, region.y +
\* region.height - totalTextHeight - bottomPadding))
ClampStartY(startY, region, totalTextHeight200, normalFontSize) ==
  Max(region.y * 200 + normalFontSize * 120,
      Min(startY,
          region.y * 200 + region.height * 200 - totalTextHeight200
            - normalFontSize * 120))

\* wrappedLines.map(...).filter(obj => obj !== null): the text objects, with
\* currentY the running y.  fontSize is in tenths.
RECURSIVE TextObjects(_, _, _, _, _)
TextObjects(wrappedLines, n, currentY, plan, region) ==
  IF n > Len(wrappedLines) THEN <<>>
  ELSE
    LET line == wrappedLines[n]
    IN IF line.text = <<>> /\ ~line.isNewParagraph
       THEN TextObjects(wrappedLines, n + 1, currentY, plan, region)
       ELSE IF line.isParagraphSpace
       THEN TextObjects(
              wrappedLines, n + 1,
              currentY + ParagraphSpacing200(wrappedLines, plan.normalFontSize)
                - LineHeight200(plan.normalFontSize),
              plan, region)
       ELSE
         LET fontSize10 == IF line.isBold THEN plan.boldFontSize10
                           ELSE plan.normalFontSize * 10
         IN <<[type |-> "text",
               text |-> line.text,
               x200 |-> region.x * 200 + region.width * 100,
               y200 |-> currentY + fontSize10 * 10,
               color |-> "#000000",
               fontSize10 |-> fontSize10,
               fontWeight |-> IF line.isBold THEN "bold" ELSE "normal",
               colorSegments |-> line.colorSegments]>>
            \o TextObjects(wrappedLines, n + 1,
                           currentY + LineHeight200(plan.normalFontSize),
                           plan, region)

\* insertTextIntoRegions from the line after the await of
\* calculateOptimalFontSize up to the call of drawRegionsWithText
LayOutText(region, paragraphs, plan) ==
  LET wrappedLines == WrapAll(paragraphs, 1, plan, region)
      totalTextHeight200 ==
        TotalTextHeight200(wrappedLines, Len(wrappedLines),
                           plan.normalFontSize)
      verticalAlignment ==
        determineVerticalAlignment(region, totalTextHeight200, wrappedLines)
      startY200 ==
        ClampStartY(
          AlignedStartY200(region, totalTextHeight200, plan.normalFontSize,
                           verticalAlignment),
          region, totalTextHeight200, plan.normalFontSize)
  IN [wrappedLines |-> wrappedLines,
      totalTextHeight200 |-> totalTextHeight200,
      verticalAlignment |-> verticalAlignment,
      startY200 |-> startY200,
      textObjects |-> TextObjects(wrappedLines, 1, startY200, plan, region)]

\* insertTextIntoRegions up to the call of drawRegionsWithText.  inserted is
\* FALSE when the image is returned unchanged (no valid region).
insertTextIntoRegions(textContent, emptyRegions) ==
  LET regions == ValidRegions(emptyRegions)
  IN IF regions = <<>>
     THEN [inserted |-> FALSE, region |-> <<>>, paragraphs |-> <<>>,
           plan |-> <<>>, wrappedLines |-> <<>>, totalTextHeight200 |-> 0,
           verticalAlignment |-> "none", startY200 |-> 0,
           textObjects |-> <<>>]
     ELSE LET region == regions[1]
              paragraphs == SplitParagraphs(textContent)
              plan == calculateOptimalFontSize(region, paragraphs)
              laid == LayOutText(region, paragraphs, plan)
          IN [inserted |-> TRUE, region |-> region,
              paragraphs |-> paragraphs, plan |-> plan,
              wrappedLines |-> laid.wrappedLines,
              totalTextHeight200 |-> laid.totalTextHeight200,
              verticalAlignment |-> laid.verticalAlignment,
              startY200 |-> laid.startY200,
              textObjects |-> laid.textObjects]

\* Longest text of a text block tried
MaxTextLen == 5

WrapChars == {"a", "M", " ", "\n"}

\* Longer texts, with a long word between two short ones: "MM MMMM MM"
\* and "aa aaaa aa"
WrapLongTexts ==
  {<<c, c, " ", c, c, c, c, " ", c, c>> : c \in {"M", "a"}}

\* rowText.trim(), not empty: no white space at either end
WrapTexts ==
  {t \in SeqsUpTo(WrapChars, MaxTextLen) :
     /\ t # <<>>
     /\ t[1] \notin {" ", "\n"}
     /\ t[Len(t)] \notin {" ", "\n"}}
  \cup WrapLongTexts

\* No bold, the first character bold, or everything from the second
\* character on bold
WrapBoldChoices(t) ==
  {<<>>, <<[start |-> 0, length |-> 1]>>,
   <<[start |-> 1, length |-> Len(t) - 1]>>}

\* No color, the whole text red, or the last character red
WrapColorChoices(t) ==
  {<<>>, <<[start |-> 0, length |-> Len(t), color |-> "#FF0000"]>>,
   <<[start |-> Len(t) - 1, length |-> 1, color |-> "#FF0000"]>>}

WrapTextContents ==
  UNION {{[text |-> t, colorSegments |-> c, boldSegments |-> b] :
            c \in WrapColorChoices(t), b \in WrapBoldChoices(t)} :
           t \in WrapTexts}

FoundRegion(y, width, height) ==
  WithArea([x |-> 0, y |-> y, width |-> width, height |-> height])

\* Region lists as findEmptyRegions returns them: one width, area descending
WrapRegionLists ==
  {<<>>,
   <<FoundRegion(0, 50, 200)>>,
   <<FoundRegion(0, 100, 60)>>,
   <<FoundRegion(0, 100, 200)>>,
   <<FoundRegion(100, 100, 200), FoundRegion(0, 100, 60)>>}

InitWrap ==
  /\ wrap \in {[done |-> FALSE, textContent |-> tc, emptyRegions |-> rs,
                out |-> <<>>] :
                 tc \in WrapTextContents, rs \in WrapRegionLists}

InsertTextIntoRegions ==
  /\ ~wrap.done
  /\ wrap' = [wrap EXCEPT
                !.done = TRUE,
                !.out = insertTextIntoRegions(wrap.textContent,
                                              wrap.emptyRegions)]
  /\ UNCHANGED notWrap

\* ------------------------------------------------------------------------
\* Concurrent invocations of insertTextIntoRegions (src/index.js 1063-1068,
\* 1440-1697)
\*
\* processPromises starts one invocation per text block and the batch runs
\* several images at once, so invocations are in flight together.  An
\* invocation gives way at its two awaits only.  It is at
\*   "start"      called, nothing run yet
\*   "awaitPlan"  awaiting calculateOptimalFontSize, whose body has run
\*   "drawing"    awaiting drawRegionsWithText, the text objects handed over
\*   "done"       returned
\* Everything an invocation computes is held in its own constants.
\* ------------------------------------------------------------------------

\* Most invocations in flight together
MaxTasks == 3

LayoutTextContents ==
  {[text |-> <<"a", " ", "M">>, colorSegments |-> <<>>,
    boldSegments |-> <<>>],
   [text |-> <<"M", "\n", "a">>, colorSegments |-> <<>>,
    boldSegments |-> <<[start |-> 0, length |-> 1]>>]}

LayoutRegionLists ==
  {<<FoundRegion(0, 50, 200)>>,
   <<FoundRegion(100, 100, 200), FoundRegion(0, 100, 60)>>}

LayoutTasks == 1..Len(lay.tasks)

NewTask(tc, rs) ==
  [pc |-> "start", textContent |-> tc, emptyRegions |-> rs,
   inserted |-> FALSE, region |-> <<>>, paragraphs |-> <<>>,
   plan |-> <<>>, textObjects |-> <<>>]

InitLayout ==
  /\ \E n \in 2..MaxTasks :
       lay \in {[done |-> FALSE, tasks |-> ts] :
                  ts \in [1..n -> {NewTask(tc, rs) :
                                     tc \in LayoutTextContents,
                                     rs \in LayoutRegionLists}]}

\* Invocations awaiting calculateOptimalFontSize
AwaitingPlan(l) == {u \in 1..Len(l.tasks) : l.tasks[u].pc = "awaitPlan"}

\* A slip: the plan of whichever invocation called the solver last, as if
\* the result were kept in one variable shared by all invocations
PlanOfLatestCaller(l, t) ==
  l.tasks[CHOOSE u \in AwaitingPlan(l) :
            \A v \in AwaitingPlan(l) : v <= u].plan

\* const { normalFontSize, boldFontSize, estimatedLines } = await ...: the
\* result of the invocation's own call
PlanAfterAwait(l, t) == l.tasks[t].plan

\* From the call to the first await: the regions are filtered, the text is
\* split and the body of calculateOptimalFontSize runs.  With no valid
\* region the image buffer is returned at once.
StartLayout(t) ==
  /\ lay.tasks[t].pc = "start"
  /\ LET task == lay.tasks[t]
         regions == ValidRegions(task.emptyRegions)
     IN IF regions = <<>>
        THEN lay' = [lay EXCEPT !.tasks[t].pc = "done"]
        ELSE LET paragraphs == SplitParagraphs(task.textContent)
             IN lay' = [lay EXCEPT
                          !.tasks[t].pc = "awaitPlan",
                          !.tasks[t].region = regions[1],
                          !.tasks[t].paragraphs = paragraphs,
                          !.tasks[t].plan =
                            calculateOptimalFontSize(regions[1], paragraphs)]
  /\ UNCHANGED notLayout

\* From the first await to the second: wrap, position, build the text
\* objects and call drawRegionsWithText
ResumeLayout(t) ==
  /\ lay.tasks[t].pc = "awaitPlan"
  /\ LET task == lay.tasks[t]
         plan == PlanAfterAwait(lay, t)
         laid == LayOutText(task.region, task.paragraphs, plan)
     IN lay' = [lay EXCEPT
                  !.tasks[t].pc = "drawing",
                  !.tasks[t].inserted = TRUE,
                  !.tasks[t].plan = plan,
                  !.tasks[t].textObjects = laid.textObjects]
  /\ UNCHANGED notLayout

\* drawRegionsWithText settles and the invocation returns its buffer
DrawReturned(t) ==
  /\ lay.tasks[t].pc = "drawing"
  /\ lay' = [lay EXCEPT !.tasks[t].pc = "done"]
  /\ UNCHANGED notLayout

\* ------------------------------------------------------------------------
\* determineVerticalAlignment on its own (src/index.js 1408-1437)
\* ------------------------------------------------------------------------

\* Most lines in a wrapped-line list tried
MaxAlignLines == 5

\* Lengths of the lines tried: a paragraph-space marker (no text), short
\* lines, and lines at and beyond the two limits 30 and 50
AlignLineLengths == {0, 29, 30, 50, 51}

\* A line of wrappedLines with n characters of text
LineOfLength(n) ==
  [text |-> [i \in 1..n |-> "a"], isParagraphSpace |-> n = 0]

AlignRegion == FoundRegion(0, 100, 100)

\* totalTextHeight, in two-hundredths of a pixel, below, at and above 0.5
\* and 0.8 of the region's height
AlignHeights200 == {9800, 10000, 12000, 16000, 16200}

InitAlign ==
  /\ al \in {[done |-> FALSE, region |-> AlignRegion,
              totalTextHeight200 |-> h,
              textLines |-> [i \in 1..Len(ls) |-> LineOfLength(ls[i])],
              out |-> "none"] :
               h \in AlignHeights200,
               ls \in SeqsUpTo(AlignLineLengths, MaxAlignLines) \ {<<>>}}

DetermineVerticalAlignment ==
  /\ ~al.done
  /\ al' = [al EXCEPT
              !.done = TRUE,
              !.out = determineVerticalAlignment(al.region,
                                                 al.totalTextHeight200,
                                                 al.textLines)]
  /\ UNCHANGED notAlign

\* ------------------------------------------------------------------------
\* The Run button, the "run-insert" channel and run() (RunInsert.jsx 10-21,
\* main process 50-57, src/index.js 7, 1143-1166)
\*
\* The page sends a request and registers a once-listener for the reply.
\* The main process calls run(), which starts an async function and returns
\* as soon as that function reaches its first await; the handler then sends
\* the reply.  The batches of a run are processed in later turns of the
\* event loop.
\* ------------------------------------------------------------------------

\* Most clicks on Run and most batches of a run tried
MaxRuns == 2
MaxBatches == 2

\* The runs started so far
RunIds == 1..Len(ipc.runs)

InitIpc ==
  /\ ipc = [clicks |-> 0, isLoading |-> FALSE, listeners |-> 0,
            requests |-> 0, replies |-> <<>>, runs |-> <<>>,
            shown |-> {}, exited |-> FALSE]

\* handleRun: setIsLoading(true); ipcRenderer.send("run-insert", {});
\* ipcRenderer.once("run-insert", ...)
HandleRun ==
  /\ ~ipc.exited
  /\ ipc.clicks < MaxRuns
  /\ ipc' = [ipc EXCEPT !.clicks = @ + 1,
                        !.isLoading = TRUE,
                        !.requests = @ + 1,
                        !.listeners = @ + 1]
  /\ UNCHANGED notIpc

\* run(); event.sender.send("run-insert", {}): the reply is sent when run()
\* returns
RepliesAfterRun(replies, run, batches) == Append(replies, run)

\* ipcMain.on("run-insert"): run() goes through checkRequiredDirectories,
\* getAllImages and processBatch up to its first await, with batches
\* batches of images found (none: processAllImages returns at once)
OnRunInsert(batches) ==
  /\ ~ipc.exited
  /\ ipc.requests > 0
  /\ ipc' = [ipc EXCEPT
               !.requests = @ - 1,
               !.runs = Append(@, [batches |-> batches, left |-> batches]),
               !.replies = RepliesAfterRun(@, Len(ipc.runs) + 1, batches)]
  /\ UNCHANGED notIpc

\* One batch of run r settles: await Promise.all(...) resumes
BatchProcessed(r) ==
  /\ ~ipc.exited
  /\ ipc.runs[r].left > 0
  /\ ipc' = [ipc EXCEPT !.runs[r].left = @ - 1]
  /\ UNCHANGED notIpc

\* processAllImages rejects: console.error and process.exit(1)
RunFails(r) ==
  /\ ~ipc.exited
  /\ ipc.runs[r].left > 0
  /\ ipc' = [ipc EXCEPT !.exited = TRUE]
  /\ UNCHANGED notIpc

\* The page receives a reply: every once-listener registered so far runs,
\* shows the success notification and clears the loading state
OnReply ==
  /\ ~ipc.exited
  /\ ipc.replies # <<>>
  /\ ipc' = [ipc EXCEPT
               !.replies = Tail(@),
               !.listeners = 0,
               !.shown = IF ipc.listeners > 0
                         THEN @ \cup {Head(ipc.replies)} ELSE @,
               !.isLoading = IF ipc.listeners > 0 THEN FALSE ELSE @]
  /\ UNCHANGED notIpc

\* ------------------------------------------------------------------------
\* processImage and processBatch (src/index.js 1019-1140)
\*
\* JavaScript runs one task at a time; a task gives way only at an await.
\* Every action below is the code between two awaits.  An image task is at
\*   "idle"     not started
\*   "texts"    awaiting getAllTextFiles
\*   "regions"  awaiting Promise.all([metadata, findEmptyRegions])
\*   "running"  awaiting Promise.all(processPromises)
\*   "done"     processImage has returned (result)
\* and a text-block task at
\*   "rejected" its mkdirSync threw, outside the task's try
\*   "pending"  awaiting insertTextIntoRegions or the encoder's toFile
\*   "ok"       result file written, returned true
\*   "failed"   an error was caught, returned false
\* The text-block tasks of one image run the same code and differ only in
\* the index that names their output directory, so txt[i] counts how many
\* of the total text blocks of image i are at each position.
\* ------------------------------------------------------------------------

\* Most images found, largest batchSize argument and most text blocks tried
MaxImages == 3
MaxBatchSize == 4
MaxTexts == 2

\* What getAllImages finds, in directory order: relative folder, base name
\* and extension of each image
DirListing ==
  <<[dir |-> <<>>, name |-> "a", ext |-> "jpg"],
    [dir |-> <<>>, name |-> "a", ext |-> "png"],
    [dir |-> <<>>, name |-> "b", ext |-> "jpg"],
    [dir |-> <<"sub">>, name |-> "a", ext |-> "jpg"],
    [dir |-> <<"sub">>, name |-> "b", ext |-> "webp"],
    [dir |-> <<"sub">>, name |-> "c", ext |-> "png"]>>

ImageIds == 1..Len(images)

\* No text-block task has been created
NoTexts == [total |-> 0, pending |-> 0, ok |-> 0, failed |-> 0, rejected |-> 0]

\* The indices i + 1 of textFiles.map((textContent, i) => ...)
TextIds(i) == 1..txt[i].total

\* path.join(resultDir, relativePath, baseImageName, `text_${i + 1}`,
\* `result.${OUTPUT_FORMAT}`): the folder below resultDir and the index
OutputPath(i, k) ==
  [folder |-> Append(images[i].dir, images[i].name), textIndex |-> k]

\* batches[b] = images.slice(b * batchSize, (b + 1) * batchSize): the batch
\* that starts after the first `from` images
BatchFrom(from) == (from + 1)..Min(from + batchSize, Len(images))

\* The batch being awaited
CurrentBatch ==
  {i \in ImageIds : /\ i <= launched
                    /\ (i - 1) \div batchSize = (launched - 1) \div batchSize}

\* catch (error) { ...; return false; } of processImage
CatchImageError(s) == [s EXCEPT !.pc = "done", !.result = FALSE]

\* A processImage without its try/catch: the error leaves the task rejected
RethrowImageError(s) == [s EXCEPT !.pc = "rejected", !.result = FALSE]

ImageError(s) == CatchImageError(s)

InitBatch ==
  /\ \E n \in 1..MaxImages : images = SubSeq(DirListing, 1, n)
  /\ batchSize \in 1..MaxBatchSize
  /\ nTexts \in 0..MaxTexts
  /\ img = [i \in ImageIds |-> [pc |-> "idle", result |-> FALSE, calls |-> 0]]
  /\ txt = [i \in ImageIds |-> NoTexts]
  /\ launched = 0
  /\ completed = 0
  /\ successful = 0
  /\ attempted = {}
  /\ bpc = "loop"

\* for (const batch of batches) { ... Promise.all(batch.map(processImage)):
\* every processImage of the batch runs up to its first await.
\* readImageFile is synchronous and may throw (readFails).
LaunchBatch ==
  /\ bpc = "loop"
  /\ launched < Len(images)
  /\ \E readFails \in SUBSET BatchFrom(launched) :
       img' = [i \in ImageIds |->
                 IF i \notin BatchFrom(launched) THEN img[i]
                 ELSE IF i \in readFails
                      THEN ImageError([img[i] EXCEPT !.calls = @ + 1])
                      ELSE [img[i] EXCEPT !.pc = "texts", !.calls = @ + 1]]
  /\ launched' = Min(launched + batchSize, Len(images))
  /\ bpc' = "await"
  /\ UNCHANGED <<images, batchSize, nTexts, txt, completed, successful,
                 attempted>>
  /\ UNCHANGED notBatch

\* processImage after getAllTextFiles: no text file found (the directory
\* error is swallowed by getAllTextFiles, which then returns []) returns
\* false; mkdirSync(resultSubDir) may throw; else the task awaits the
\* metadata and the empty regions.
TextsLoaded(i) ==
  /\ img[i].pc = "texts"
  /\ \E n \in {0, nTexts}, mkdirOk \in BOOLEAN :
       /\ img' = [img EXCEPT ![i] =
                    IF n = 0 THEN [@ EXCEPT !.pc = "done", !.result = FALSE]
                    ELSE IF ~mkdirOk THEN ImageError(@)
                    ELSE [@ EXCEPT !.pc = "regions"]]
       /\ txt' = [txt EXCEPT ![i] = IF n > 0 /\ mkdirOk
                                    THEN [NoTexts EXCEPT !.total = n]
                                    ELSE NoTexts]
  /\ UNCHANGED <<images, batchSize, nTexts, launched, completed, successful,
                 attempted, bpc>>
  /\ UNCHANGED notBatch

\* The image could not be decoded: caught by processImage
RegionsFailed(i) ==
  /\ img[i].pc = "regions"
  /\ img' = [img EXCEPT ![i] = ImageError(@)]
  /\ txt' = [txt EXCEPT ![i] = NoTexts]
  /\ UNCHANGED <<images, batchSize, nTexts, launched, completed, successful,
                 attempted, bpc>>
  /\ UNCHANGED notBatch

\* textFiles.map(async (textContent, i) => ...): every callback runs up to
\* its first await.  mkdirSync(outputDir) is outside the callback's try: if
\* it throws the callback's promise is rejected (mkdirFails of them), which
\* rejects Promise.all(processPromises) at once, and processImage returns
\* false while the other callbacks are still pending.
RegionsFound(i) ==
  /\ img[i].pc = "regions"
  /\ \E mkdirFails \in 0..txt[i].total :
       /\ txt' = [txt EXCEPT ![i] =
                    [@ EXCEPT !.rejected = mkdirFails,
                              !.pending = txt[i].total - mkdirFails]]
       /\ img' = [img EXCEPT ![i] =
                    IF mkdirFails > 0 THEN ImageError(@)
                    ELSE [@ EXCEPT !.pc = "running"]]
  /\ attempted' = attempted \cup {<<i, k>> : k \in TextIds(i)}
  /\ UNCHANGED <<images, batchSize, nTexts, launched, completed, successful,
                 bpc>>
  /\ UNCHANGED notBatch

\* Promise.all(processPromises) resolves once every callback has returned
AllTextsReturned(counts) == counts.ok + counts.failed = counts.total

\* A text-block task ends: the result file is written and the callback
\* returns true, or an error of the layout, the rendering or the encoder is
\* caught and it returns false.  The last callback to return resolves
\* Promise.all(processPromises), and processImage returns
\* results.some(Boolean).
TextDone(i) ==
  /\ txt[i].pending > 0
  /\ \E outcome \in {"ok", "failed"} :
       LET counts == [txt[i] EXCEPT
                        !.pending = @ - 1,
                        !.ok = IF outcome = "ok" THEN @ + 1 ELSE @,
                        !.failed = IF outcome = "failed" THEN @ + 1 ELSE @]
       IN /\ txt' = [txt EXCEPT ![i] = counts]
          /\ img' = [img EXCEPT ![i] =
                       IF @.pc = "running" /\ AllTextsReturned(counts)
                       THEN [@ EXCEPT !.pc = "done", !.result = counts.ok > 0]
                       ELSE @]
  /\ UNCHANGED <<images, batchSize, nTexts, launched, completed, successful,
                 attempted, bpc>>
  /\ UNCHANGED notBatch

\* A join that does not wait for every task of the batch (Promise.race)
BatchSettledAny == \E i \in CurrentBatch : img[i].pc = "done"

\* await Promise.all(batch.map(...)) resumes when every processImage of the
\* batch has returned
BatchSettled == \A i \in CurrentBatch : img[i].pc = "done"

\* completed += batch.length; successful += results.filter(Boolean).length
JoinBatch ==
  /\ bpc = "await"
  /\ BatchSettled
  /\ completed' = completed + Cardinality(CurrentBatch)
  /\ successful' = successful
                     + Cardinality({i \in CurrentBatch : img[i].result})
  /\ bpc' = "loop"
  /\ UNCHANGED <<images, batchSize, nTexts, img, txt, launched, attempted>>
  /\ UNCHANGED notBatch

\* The loop over the batches is over: progressBar.complete() and the summary
FinishBatches ==
  /\ bpc = "loop"
  /\ launched = Len(images)
  /\ bpc' = "done"
  /\ UNCHANGED <<images, batchSize, nTexts, img, txt, launched, completed,
                 successful, attempted>>
  /\ UNCHANGED notBatch

\* ------------------------------------------------------------------------
\* readImageFile and the image cache (src/index.js 156-190)
\*
\* imageCache is a Map: its entries are kept in the order their keys were
\* first set, and keys().next() is the first of them.  An entry is a path,
\* the byte length of its buffer and the number of the call that set it.
\* readImageFile is synchronous; its eviction loop is one step per turn of
\* the loop, rd.pc = "loop" while the call is inside the loop.
\* ------------------------------------------------------------------------

\* Most calls of readImageFile and most distinct paths tried
MaxReads == 5
MaxPaths == 3

MB == 1024 * 1024

\* 100MB cache limit
MAX_CACHE_SIZE == 100 * MB

\* Byte lengths of the files read: two that together fill the budget
\* exactly, and one larger than the whole budget
FileLengths == {40 * MB, 60 * MB, MAX_CACHE_SIZE + 1}

Paths == 1..MaxPaths

\* imageCache.has(imagePath)
Has(cache, imagePath) == \E i \in 1..Len(cache) : cache[i].path = imagePath

\* imageCache.get(imagePath)
Get(cache, imagePath) ==
  cache[CHOOSE i \in 1..Len(cache) : cache[i].path = imagePath]

RECURSIVE SumLengths(_)
SumLengths(cache) ==
  IF cache = <<>> THEN 0 ELSE Head(cache).length + SumLengths(Tail(cache))

\* A slip that evicts the newest entry
NewestIndex(cache) == Len(cache)

\* imageCache.keys().next().value: the first key in insertion order
OldestIndex(cache) == 1

\* imageCache.delete(key)
Delete(cache, index) ==
  [i \in 1..(Len(cache) - 1) |-> IF i < index THEN cache[i] ELSE cache[i + 1]]

\* A slip that forgets the size of the buffer being inserted
MustEvictIgnoringNew(size, length) == size > MAX_CACHE_SIZE

\* while (currentCacheSize + imageBuffer.length > MAX_CACHE_SIZE)
MustEvict(size, length) == size + length > MAX_CACHE_SIZE

CacheIdle ==
  /\ imageCache = <<>>
  /\ currentCacheSize = 0
  /\ rd = [pc |-> "none"]
  /\ reads = 0

InitCache ==
  /\ imageCache = <<>>
  /\ currentCacheSize = 0
  /\ rd = [pc |-> "idle", path |-> 0, length |-> 0, outcome |-> "none"]
  /\ reads = 0

\* if (imageCache.has(imagePath)) return imageCache.get(imagePath);
ReadHit(imagePath) ==
  /\ rd.pc = "idle"
  /\ reads < MaxReads
  /\ Has(imageCache, imagePath)
  /\ rd' = [pc |-> "idle", path |-> imagePath,
            length |-> Get(imageCache, imagePath).length, outcome |-> "hit"]
  /\ reads' = reads + 1
  /\ UNCHANGED <<imageCache, currentCacheSize>>
  /\ UNCHANGED notCache

\* fs.readFileSync throws (no such file): the error is logged and rethrown
ReadThrows(imagePath) ==
  /\ rd.pc = "idle"
  /\ reads < MaxReads
  /\ ~Has(imageCache, imagePath)
  /\ rd' = [pc |-> "idle", path |-> imagePath, length |-> 0,
            outcome |-> "threw"]
  /\ reads' = reads + 1
  /\ UNCHANGED <<imageCache, currentCacheSize>>
  /\ UNCHANGED notCache

\* const imageBuffer = fs.readFileSync(fullPath), then the loop is entered
ReadMiss(imagePath, length) ==
  /\ rd.pc = "idle"
  /\ reads < MaxReads
  /\ ~Has(imageCache, imagePath)
  /\ rd' = [pc |-> "loop", path |-> imagePath, length |-> length,
            outcome |-> "reading"]
  /\ reads' = reads + 1
  /\ UNCHANGED <<imageCache, currentCacheSize>>
  /\ UNCHANGED notCache

\* One turn of the loop: clearOldestCache(), which returns at once when the
\* cache is empty
ClearOldestCache ==
  /\ rd.pc = "loop"
  /\ MustEvict(currentCacheSize, rd.length)
  /\ IF Len(imageCache) = 0
     THEN UNCHANGED <<imageCache, currentCacheSize>>
     ELSE LET oldestKey == OldestIndex(imageCache)
              oldestSize == imageCache[oldestKey].length
          IN /\ imageCache' = Delete(imageCache, oldestKey)
             /\ currentCacheSize' = currentCacheSize - oldestSize
  /\ UNCHANGED <<rd, reads>>
  /\ UNCHANGED notCache

\* The loop is left: imageCache.set(imagePath, imageBuffer);
\* currentCacheSize += imageBuffer.length; return imageBuffer;
CacheSet ==
  /\ rd.pc = "loop"
  /\ ~MustEvict(currentCacheSize, rd.length)
  /\ imageCache' = Append(imageCache, [path |-> rd.path, length |-> rd.length,
                                       call |-> reads])
  /\ currentCacheSize' = currentCacheSize + rd.length
  /\ rd' = [rd EXCEPT !.pc = "idle", !.outcome = "miss"]
  /\ UNCHANGED reads
  /\ UNCHANGED notCache

\* ------------------------------------------------------------------------
\* Calls of calculateTextWidth on the same text at two font sizes
\* ------------------------------------------------------------------------

\* Longest text measured
MaxWidthLen == 3

\* A space, a tab, a narrow, a wide and a default-width character
WidthChars == {" ", "\t", "i", "M", "a"}

\* Font sizes in tenths: 1, 14, 15.4 (bold 14), 20, 72 and 79.2 (bold 72)
WidthFontSizes10 == {10, 140, 154, 200, 720, 792}

InitWidth ==
  \E t \in SeqsUpTo(WidthChars, MaxWidthLen) :
    \E a \in WidthFontSizes10 : \E b \in WidthFontSizes10 :
      /\ a < b
      /\ tw = [done |-> FALSE, text |-> t, f1 |-> a, f2 |-> b,
               w1 |-> 0, w2 |-> 0]

CalculateTextWidth ==
  /\ ~tw.done
  /\ tw' = [tw EXCEPT !.done = TRUE,
                      !.w1 = calculateTextWidth(tw.text, tw.f1),
                      !.w2 = calculateTextWidth(tw.text, tw.f2)]
  /\ UNCHANGED notWidth

\* ------------------------------------------------------------------------
\* Specifications
\* ------------------------------------------------------------------------

BatchIdle ==
  /\ images = <<>>
  /\ batchSize = 0
  /\ nTexts = 0
  /\ img = <<>>
  /\ txt = <<>>
  /\ launched = 0
  /\ completed = 0
  /\ successful = 0
  /\ attempted = {}
  /\ bpc = "idle"

InitEscapeSpec ==
  /\ InitEscape
  /\ finder = Idle /\ solver = Idle /\ wrap = Idle
  /\ BatchIdle
  /\ CacheIdle
  /\ tw = Idle /\ lay = Idle /\ al = Idle /\ ipc = Idle

NextEscape == DrawRegionsWithText

SpecEscape == InitEscapeSpec /\ [][NextEscape]_vars

InitFinderSpec ==
  /\ InitFinder
  /\ esc = Idle /\ solver = Idle /\ wrap = Idle
  /\ BatchIdle
  /\ CacheIdle
  /\ tw = Idle /\ lay = Idle /\ al = Idle /\ ipc = Idle

NextFinder == FindEmptyRegions

SpecFinder == InitFinderSpec /\ [][NextFinder]_vars


InitSolverSpec ==
  /\ InitSolver
  /\ esc = Idle /\ finder = Idle /\ wrap = Idle
  /\ BatchIdle
  /\ CacheIdle
  /\ tw = Idle /\ lay = Idle /\ al = Idle /\ ipc = Idle

NextSolver == CalculateOptimalFontSize

SpecSolver == InitSolverSpec /\ [][NextSolver]_vars

InitWrapSpec ==
  /\ InitWrap
  /\ esc = Idle /\ finder = Idle /\ solver = Idle
  /\ BatchIdle
  /\ CacheIdle
  /\ tw = Idle /\ lay = Idle /\ al = Idle /\ ipc = Idle

NextWrap == InsertTextIntoRegions

SpecWrap == InitWrapSpec /\ [][NextWrap]_vars

InitBatchSpec ==
  /\ InitBatch
  /\ esc = Idle /\ finder = Idle /\ solver = Idle /\ wrap = Idle
  /\ CacheIdle
  /\ tw = Idle /\ lay = Idle /\ al = Idle /\ ipc = Idle

NextBatch ==
  \/ LaunchBatch
  \/ \E i \in ImageIds : TextsLoaded(i)
  \/ \E i \in ImageIds : RegionsFailed(i)
  \/ \E i \in ImageIds : RegionsFound(i)
  \/ \E i \in ImageIds : TextDone(i)
  \/ JoinBatch
  \/ FinishBatches

SpecBatch == InitBatchSpec /\ [][NextBatch]_vars

InitCacheSpec ==
  /\ InitCache
  /\ esc = Idle /\ finder = Idle /\ solver = Idle /\ wrap = Idle
  /\ BatchIdle
  /\ tw = Idle /\ lay = Idle /\ al = Idle /\ ipc = Idle

NextCache ==
  \/ \E imagePath \in Paths : ReadHit(imagePath)
  \/ \E imagePath \in Paths : ReadThrows(imagePath)
  \/ \E imagePath \in Paths : \E length \in FileLengths :
       ReadMiss(imagePath, length)
  \/ ClearOldestCache
  \/ CacheSet

SpecCache == InitCacheSpec /\ [][NextCache]_vars

\* readImageFile is synchronous: once called it runs on, turn after turn of
\* its loop, until it returns
FairCache == WF_vars(ClearOldestCache) /\ WF_vars(CacheSet)

SpecCacheFair == InitCacheSpec /\ [][NextCache]_vars /\ FairCache

InitWidthSpec ==
  /\ InitWidth
  /\ esc = Idle /\ finder = Idle /\ solver = Idle /\ wrap = Idle
  /\ BatchIdle
  /\ CacheIdle
  /\ lay = Idle /\ al = Idle /\ ipc = Idle

NextWidth == CalculateTextWidth

SpecWidth == InitWidthSpec /\ [][NextWidth]_vars

InitLayoutSpec ==
  /\ InitLayout
  /\ esc = Idle /\ finder = Idle /\ solver = Idle /\ wrap = Idle
  /\ BatchIdle
  /\ CacheIdle
  /\ tw = Idle /\ al = Idle /\ ipc = Idle

NextLayout ==
  \/ \E t \in LayoutTasks : StartLayout(t)
  \/ \E t \in LayoutTasks : ResumeLayout(t)
  \/ \E t \in LayoutTasks : DrawReturned(t)

SpecLayout == InitLayoutSpec /\ [][NextLayout]_vars

InitAlignSpec ==
  /\ InitAlign
  /\ esc = Idle /\ finder = Idle /\ solver = Idle /\ wrap = Idle
  /\ BatchIdle
  /\ CacheIdle
  /\ tw = Idle /\ lay = Idle /\ ipc = Idle

NextAlign == DetermineVerticalAlignment

SpecAlign == InitAlignSpec /\ [][NextAlign]_vars

InitIpcSpec ==
  /\ InitIpc
  /\ esc = Idle /\ finder = Idle /\ solver = Idle /\ wrap = Idle
  /\ BatchIdle
  /\ CacheIdle
  /\ tw = Idle /\ lay = Idle /\ al = Idle

NextIpc ==
  \/ HandleRun
  \/ \E batches \in 0..MaxBatches : OnRunInsert(batches)
  \/ \E r \in RunIds : BatchProcessed(r)
  \/ \E r \in RunIds : RunFails(r)
  \/ OnReply

SpecIpc == InitIpcSpec /\ [][NextIpc]_vars

\* ------------------------------------------------------------------------
\* Claims about findEmptyRegions (checked under SpecFinder)
\* ------------------------------------------------------------------------

FinderImage == Raster(finder.style, finder.bands)

\* C5: the list returned by findEmptyRegions is sorted by area in
\* non-increasing order and holds no region lower than minHeight.
C5_RegionsSortedAndTallEnough ==
  finder.done =>
    /\ \A i \in 1..Len(finder.regions) - 1 :
         finder.regions[i].area >= finder.regions[i + 1].area
    /\ \A i \in 1..Len(finder.regions) :
         finder.regions[i].height >= finder.minHeight

\* C5 witness: two regions were found and the sort moved the lower one of
\* the image, which has the larger area, in front of the upper one.
C5_Witness ==
  /\ finder.done
  /\ Len(finder.regions) = 2
  /\ finder.regions[1].area > finder.regions[2].area
  /\ finder.regions[1].y > finder.regions[2].y

\* The qualifying empty bands before the merge, top to bottom
RawBands == RawRegions(FinderImage, finder.minHeight)

\* The pixel gap between band i and the next one is below 20
Linked(raw, i) == raw[i + 1].y - (raw[i].y + raw[i].height) < 20

\* The last band of the chain of linked bands that holds band i
RECURSIVE ChainEnd(_, _)
ChainEnd(raw, i) ==
  IF i < Len(raw) /\ Linked(raw, i) THEN ChainEnd(raw, i + 1) ELSE i

ChainStarts(raw) == {i \in 1..Len(raw) : i = 1 \/ ~Linked(raw, i - 1)}

\* One region per chain: from the top of its first band to the bottom of
\* its last
ExpectedMerged(raw) ==
  {[y |-> raw[i].y,
    height |-> raw[ChainEnd(raw, i)].y + raw[ChainEnd(raw, i)].height
                 - raw[i].y] : i \in ChainStarts(raw)}

\* C19: consecutive qualifying bands are merged exactly when the gap between
\* the end of the earlier (possibly already merged) band and the start of
\* the later one is below 20 pixels; the merged region keeps the earlier
\* band's y and ends where the later band ends; bands 20 pixels or more
\* apart stay separate regions.
C19_MergesBandsCloserThan20 ==
  finder.done =>
    /\ {[y |-> finder.regions[i].y, height |-> finder.regions[i].height] :
          i \in 1..Len(finder.regions)} = ExpectedMerged(RawBands)
    /\ Len(finder.regions) = Cardinality(ChainStarts(RawBands))

\* Of three bands the first two, 15 pixels apart, were merged and the
\* third, 20 pixels further down, was not
C19_Witness ==
  /\ finder.done
  /\ Len(RawBands) = 3
  /\ Linked(RawBands, 1) /\ ~Linked(RawBands, 2)
  /\ RawBands[2].y - (RawBands[1].y + RawBands[1].height) = 15
  /\ RawBands[3].y - (RawBands[2].y + RawBands[2].height) = 20
  /\ Len(finder.regions) = 2

\* The image of the region split property: a light band, one fully dark
\* full-width band of at least 4 x cellSize pixels, a light band, both light
\* bands at least minHeight pixels high.
IsSplitImage ==
  /\ finder.style.dark = "full"
  /\ Len(finder.bands) = 3
  /\ finder.bands[1].kind = "light"
  /\ finder.bands[1].h >= finder.minHeight
  /\ finder.bands[2].h >= 4 * cellSize
  /\ finder.bands[3].h >= finder.minHeight

\* The two regions are the two light bands: one above the dark band, one
\* below it.
TwoSeparateRegions ==
  /\ Len(finder.regions) = 2
  /\ \E i, j \in 1..2 :
       /\ finder.regions[i].y = 0
       /\ finder.regions[i].height <= finder.bands[1].h
       /\ finder.regions[j].y >= finder.bands[1].h + finder.bands[2].h

C7_AllWhiteOneRegion ==
  (/\ finder.done
   /\ \A x \in 0..FinderImage.width - 1, y \in 0..FinderImage.height - 1 :
        Pixel(FinderImage, x, y) >= 200
   /\ FinderImage.height >= finder.minHeight)
  => /\ Len(finder.regions) = 1
     /\ finder.regions[1].x = 0
     /\ finder.regions[1].y = 0
     /\ finder.regions[1].width = FinderImage.width
     /\ finder.regions[1].height =
          CeilDiv(FinderImage.height, cellSize) * cellSize

\* C7 witness: an all-light image whose height is not a multiple of the
\* cell size, and the one region found is higher than the image.
C7_Witness ==
  /\ finder.done
  /\ Len(finder.bands) = 1
  /\ finder.bands[1].kind = "light"
  /\ finder.bands[1].h >= finder.minHeight
  /\ Len(finder.regions) = 1
  /\ finder.regions[1].height > finder.bands[1].h

\* ------------------------------------------------------------------------
\* Claims about the escaping in drawRegionsWithText (checked under
\* SpecEscape)
\* ------------------------------------------------------------------------

Entities ==
  {<<AmpEntity, "&">>, <<LtEntity, "<">>, <<GtEntity, ">">>,
   <<QuotEntity, "\"">>, <<AposEntity, "'">>}

StartsWith(s, prefix) ==
  Len(s) >= Len(prefix) /\ SubSeq(s, 1, Len(prefix)) = prefix

\* An XML reader's decoding of the five entities, left to right
RECURSIVE DecodeEntities(_)
DecodeEntities(s) ==
  IF s = <<>> THEN <<>>
  ELSE IF \E e \in Entities : StartsWith(s, e[1])
       THEN LET e == CHOOSE e \in Entities : StartsWith(s, e[1])
            IN <<e[2]>> \o DecodeEntities(SubSeq(s, Len(e[1]) + 1, Len(s)))
       ELSE <<Head(s)>> \o DecodeEntities(Tail(s))

NoRawMarkup(s) ==
  \A i \in 1..Len(s) : s[i] \notin {"<", ">", "\"", "'"}

EveryAmpStartsEntity(s) ==
  \A i \in 1..Len(s) :
    s[i] = "&" => \E e \in Entities : StartsWith(SubSeq(s, i, Len(s)), e[1])

\* The texts a text object hands to the markup, unescaped
SourceTexts(obj) ==
  IF Len(obj.colorSegments) > 0
  THEN [i \in 1..Len(obj.colorSegments) |-> obj.colorSegments[i].text]
  ELSE <<obj.text>>

\* C8: every run text and every color-segment text embedded in the SVG has
\* no raw < > " or ', each of its & starts one of the five entities, and
\* decoding the entities gives back the original text.
C8_EscapedTextRoundTrips ==
  esc.done =>
    /\ Len(esc.svg) = Len(SourceTexts(esc.obj))
    /\ \A i \in 1..Len(esc.svg) :
         /\ NoRawMarkup(esc.svg[i])
         /\ EveryAmpStartsEntity(esc.svg[i])
         /\ DecodeEntities(esc.svg[i]) = SourceTexts(esc.obj)[i]

\* C8 witness: a run text that is itself the entity-like "&lt;" was embedded
\* as "&amp;lt;".
C8_Witness ==
  /\ esc.done
  /\ Len(esc.obj.colorSegments) = 0
  /\ esc.obj.text = LtEntity
  /\ esc.svg = <<AmpEntity \o <<"l", "t", ";">>>>


\* ------------------------------------------------------------------------
\* Claims about calculateOptimalFontSize (checked under SpecSolver)
\* ------------------------------------------------------------------------

FontSizes == minFontSize..maxFontSize

\* C2 as stated: the returned normalFontSize is within [14, 72] and the
\* binary search ran at most 10 trial iterations.
C2_SizeInRangeAndBoundedIterations ==
  solver.done =>
    /\ ~solver.plan.isNaN
    /\ solver.plan.normalFontSize \in FontSizes
    /\ solver.plan.iterations <= maxIterations

\* C3: when some integer size in [14, 72] passes the character-level fit
\* simulation, the returned size passes it and no larger size in [14, 72]
\* does.
C3_ReturnsLargestFittingSize ==
  (/\ solver.done
   /\ ~solver.throws
   /\ \E f \in FontSizes : Fits(solver.region, solver.paragraphs, f))
  => /\ ~solver.plan.isNaN
     /\ solver.plan.normalFontSize \in FontSizes
     /\ Fits(solver.region, solver.paragraphs, solver.plan.normalFontSize)
     /\ \A f \in FontSizes :
          f > solver.plan.normalFontSize
            => ~Fits(solver.region, solver.paragraphs, f)

\* C3 witness: the answer lies strictly inside the range: the returned size
\* fits, the next size does not, and smaller sizes fit as well.
C3_Witness ==
  /\ solver.done
  /\ ~solver.throws
  /\ solver.plan.normalFontSize \in (minFontSize + 1)..(maxFontSize - 1)
  /\ Fits(solver.region, solver.paragraphs, solver.plan.normalFontSize)
  /\ ~Fits(solver.region, solver.paragraphs, solver.plan.normalFontSize + 1)
  /\ Len(solver.paragraphs) = 2


TextLinesOf(lines) == {i \in 1..Len(lines) : ~lines[i].isParagraphSpace}

\* C1 as stated: no text line's estimated width exceeds effectiveWidth,
\* except a line made of a single word that is itself wider than
\* effectiveWidth.
C1_NoLineWiderThanRegion ==
  (wrap.done /\ wrap.out.inserted) =>
    \A i \in TextLinesOf(wrap.out.wrappedLines) :
      LET line == wrap.out.wrappedLines[i]
      IN \/ line.width <= EffectiveWidth(wrap.out.region)
         \/ Len(line.colorSegments) = 1

\* ------------------------------------------------------------------------
\* Claims about processImage and processBatch
\* ------------------------------------------------------------------------

\* C4: within one run every two distinct (image, text block) pairs are
\* written to distinct output paths, whatever the image paths found, images
\* of one folder that differ only in their extension included.
C4_DistinctOutputPaths ==
  \A p \in attempted : \A q \in attempted :
    p # q => OutputPath(p[1], p[2]) # OutputPath(q[1], q[2])

\* The processImage tasks that have started and not yet returned
InFlight == {i \in ImageIds : img[i].pc \in {"texts", "regions", "running"}}

BatchOf(i) == (i - 1) \div batchSize

\* C9: at any moment at most batchSize processImage tasks are in flight,
\* and no task of a later batch has started before every task of every
\* earlier batch has returned.
C9_AtMostOneBatchInFlight ==
  /\ Cardinality(InFlight) <= batchSize
  /\ \A i \in ImageIds : \A j \in ImageIds :
       (BatchOf(j) < BatchOf(i) /\ img[i].calls > 0) => img[j].pc = "done"

\* A task of the second batch is in flight after a first batch of several
\* concurrent tasks, one of which left a text-block task still pending
C9_Witness ==
  /\ batchSize >= 2
  /\ \E i \in InFlight : BatchOf(i) = 1
  /\ \E j \in ImageIds : BatchOf(j) = 0 /\ txt[j].pending > 0

C11_CacheWithinBudget ==
  /\ currentCacheSize = SumLengths(imageCache)
  /\ SumLengths(imageCache) <= MAX_CACHE_SIZE

\* A call has just cached a buffer that fills the budget exactly, after an
\* older entry had been evicted
C11_Witness ==
  /\ rd.pc = "idle" /\ rd.outcome = "miss"
  /\ Len(imageCache) = 2
  /\ currentCacheSize = MAX_CACHE_SIZE
  /\ imageCache[1].call > 1

\* The entry of the cache that was set first
IsOldestInserted(cache, i) ==
  \A j \in 1..Len(cache) : cache[j].call >= cache[i].call

\* What one step may do to the cache (the statement of C12)
CacheStep ==
  /\ (reads' # reads /\ rd'.outcome = "hit") =>
       /\ UNCHANGED <<imageCache, currentCacheSize>>
       /\ rd'.length = Get(imageCache, rd'.path).length
  /\ Len(imageCache') < Len(imageCache) =>
       /\ rd.pc = "loop"
       /\ MustEvict(currentCacheSize, rd.length)
       /\ \E i \in 1..Len(imageCache) :
            /\ IsOldestInserted(imageCache, i)
            /\ imageCache' = Delete(imageCache, i)
            /\ currentCacheSize' = currentCacheSize - imageCache[i].length
  /\ Len(imageCache') > Len(imageCache) =>
       /\ rd.pc = "loop"
       /\ ~MustEvict(currentCacheSize, rd.length)
       /\ Len(imageCache') = Len(imageCache) + 1
       /\ SubSeq(imageCache', 1, Len(imageCache)) = imageCache
       /\ imageCache'[Len(imageCache')].path = rd.path
       /\ imageCache'[Len(imageCache')].length = rd.length
  /\ Len(imageCache') = Len(imageCache) => imageCache' = imageCache

\* C12: an entry leaves the cache only while the buffer being inserted would
\* exceed the budget, and it is the oldest-inserted one; the new entry is
\* set, behind the entries that remain, as soon as it fits; a cache hit
\* returns the cached buffer and leaves the entries, their order and the
\* size as they were.
C12_EvictsInInsertionOrder == [][CacheStep]_vars

\* A hit on the oldest entry of a cache of two, after an eviction
C12_Witness ==
  /\ rd.pc = "idle" /\ rd.outcome = "hit"
  /\ Len(imageCache) = 2
  /\ rd.path = imageCache[1].path
  /\ imageCache[1].call > 1

\* ------------------------------------------------------------------------
\* Claims about calculateTextWidth (checked under SpecWidth)
\* ------------------------------------------------------------------------

RECURSIVE SumOfCharWidths(_, _, _)
SumOfCharWidths(text, i, fontSize10) ==
  IF i > Len(text) THEN 0
  ELSE calculateTextWidth(<<text[i]>>, fontSize10)
       + SumOfCharWidths(text, i + 1, fontSize10)

\* C14: a single character of any bucket is strictly wider at the larger of
\* two font sizes, and the width of a text is the sum of the widths of its
\* characters.
C14_WidthMonotoneAndAdditive ==
  tw.done =>
    /\ Len(tw.text) = 1 => tw.w2 > tw.w1
    /\ tw.w1 = SumOfCharWidths(tw.text, 1, tw.f1)
    /\ tw.w2 = SumOfCharWidths(tw.text, 1, tw.f2)

\* A space measured at 14 and at the bold size 15.4
C14_Witness ==
  /\ tw.done
  /\ tw.text = <<" ">>
  /\ tw.f1 = 140 /\ tw.f2 = 154
  /\ tw.w1 = 4200 /\ tw.w2 = 4620

\* ------------------------------------------------------------------------
\* More claims about insertTextIntoRegions (checked under SpecWrap)
\* ------------------------------------------------------------------------

IsValidRegion(r) == r.width >= 100 /\ r.height >= 30

ValidIndices(regions) ==
  {i \in 1..Len(regions) : IsValidRegion(regions[i])}

\* C17: with no region of width >= 100 and height >= 30 in the list (the
\* empty list included) the image is returned unchanged; otherwise the
\* region used is the first valid one of the list, and no valid region of
\* the list has a larger area.
C17_UsesFirstValidRegion ==
  wrap.done =>
    LET valid == ValidIndices(wrap.emptyRegions)
    IN /\ valid = {} => ~wrap.out.inserted
       /\ valid # {} =>
            /\ wrap.out.inserted
            /\ \E i \in valid :
                 /\ wrap.out.region = wrap.emptyRegions[i]
                 /\ \A j \in valid : j >= i
            /\ \A j \in valid :
                 wrap.emptyRegions[j].area <= wrap.out.region.area

\* Of two valid regions the first, larger one was used
C17_Witness ==
  /\ wrap.done
  /\ Len(wrap.emptyRegions) = 2
  /\ ValidIndices(wrap.emptyRegions) = {1, 2}
  /\ wrap.out.inserted
  /\ wrap.out.region = wrap.emptyRegions[1]
  /\ wrap.out.region.area > wrap.emptyRegions[2].area

RECURSIVE NonEmpty(_)
NonEmpty(pieces) ==
  IF pieces = <<>> THEN <<>>
  ELSE (IF Head(pieces) # <<>> THEN <<Head(pieces)>> ELSE <<>>)
       \o NonEmpty(Tail(pieces))

\* The non-empty words of a text, in order
WordsOf(text) == NonEmpty(Split(text, " "))

\* The words of the text lines of wrappedLines, paragraph by paragraph: a
\* paragraph-space marker starts the next paragraph's list
RECURSIVE WordsByParagraph(_, _)
WordsByParagraph(lines, groups) ==
  IF lines = <<>> THEN groups
  ELSE IF Head(lines).isParagraphSpace
       THEN WordsByParagraph(Tail(lines), Append(groups, <<>>))
       ELSE WordsByParagraph(
              Tail(lines),
              [groups EXCEPT ![Len(groups)] = @ \o WordsOf(Head(lines).text)])

\* A word wider than effectiveWidth even at the normal font size
IsTooWide(word, out) ==
  calculateTextWidth(word, out.plan.normalFontSize * 10)
    > EffectiveWidth(out.region)

\* C18: for every paragraph, the non-empty words of the paragraph are the
\* words of the text lines produced for it, each once and in the original
\* order, and a word that is by itself wider than effectiveWidth is alone on
\* its line.
C18_WordsKeptInOrder ==
  (wrap.done /\ wrap.out.inserted) =>
    LET groups == WordsByParagraph(wrap.out.wrappedLines, <<<<>>>>)
    IN /\ Len(groups) = Len(wrap.out.paragraphs)
       /\ \A k \in 1..Len(groups) :
            groups[k] = WordsOf(wrap.out.paragraphs[k].text)
       /\ \A i \in TextLinesOf(wrap.out.wrappedLines) :
            LET words == WordsOf(wrap.out.wrappedLines[i].text)
            IN (\E n \in 1..Len(words) : IsTooWide(words[n], wrap.out))
                 => Len(words) = 1

\* A paragraph of two words on two lines, one of them wider than
\* effectiveWidth
C18_Witness ==
  /\ wrap.done /\ wrap.out.inserted
  /\ Len(wrap.out.paragraphs) = 1
  /\ Len(wrap.out.wrappedLines) = 2
  /\ Len(WordsOf(wrap.out.paragraphs[1].text)) = 2
  /\ \E i \in 1..2 :
       IsTooWide(WordsOf(wrap.out.wrappedLines[i].text)[1], wrap.out)

\* Lower and upper end of the interval startY is clamped into, in
\* two-hundredths of a pixel
StartYLow(out) ==
  out.region.y * 200 + out.plan.normalFontSize * 120

StartYHigh(out) ==
  out.region.y * 200 + out.region.height * 200 - out.totalTextHeight200
    - out.plan.normalFontSize * 120

\* C20: for every region and wrapped text, region.y + 0.5 x lineHeight <=
\* startY <= region.y + region.height - totalTextHeight - 0.5 x lineHeight,
\* whatever the alignment and also when the text is taller than the region.
C20_StartYWithinBothBounds ==
  (wrap.done /\ wrap.out.inserted) =>
    /\ StartYLow(wrap.out) <= wrap.out.startY200
    /\ wrap.out.startY200 <= StartYHigh(wrap.out)

\* ------------------------------------------------------------------------
\* Claims about concurrent invocations of insertTextIntoRegions
\* ------------------------------------------------------------------------

\* The invocation has handed its text objects to drawRegionsWithText
LaidOut(t) == lay.tasks[t].pc \in {"drawing", "done"} /\ lay.tasks[t].inserted

SameInput(t, u) ==
  /\ lay.tasks[t].textContent = lay.tasks[u].textContent
  /\ lay.tasks[t].emptyRegions = lay.tasks[u].emptyRegions

NumTextLines(lines) == Cardinality(TextLinesOf(lines))

\* C21: when the solver finds a fitting size, the word-level wrap at that
\* size produces no more text lines than the solver's character-level
\* simulation (estimatedLines).
C21_WordWrapWithinEstimatedLines ==
  (wrap.done /\ wrap.out.inserted /\ wrap.out.plan.estimatedLines > 0) =>
    NumTextLines(wrap.out.wrappedLines) <= wrap.out.plan.estimatedLines

\* ------------------------------------------------------------------------
\* Claims about determineVerticalAlignment (checked under SpecAlign)
\* ------------------------------------------------------------------------

\* Characters of all lines together
AlignChars == SumTextLengths(al.textLines)

\* heightRatio < 0.5 and heightRatio > 0.8, with heightRatio =
\* totalTextHeight / region.height
RatioBelowHalf == al.totalTextHeight200 * 2 < al.region.height * 200

RatioAboveFourFifths == al.totalTextHeight200 * 5 > al.region.height * 200 * 4

\* Average characters per line below 30 and fewer than 5 lines
IsSparse == AlignChars < 30 * Len(al.textLines) /\ Len(al.textLines) < 5

SomeLineOver50 ==
  \E i \in 1..Len(al.textLines) : Len(al.textLines[i].text) >= 51

\* C22: 'center' when heightRatio < 0.5 or the content is sparse; otherwise
\* 'top' when heightRatio > 0.8; otherwise 'top' if some line has more than
\* 50 characters and 'center' if none has; never 'bottom'.
C22_AlignmentByRatioAndDensity ==
  al.done =>
    /\ al.out # "bottom"
    /\ (RatioBelowHalf \/ IsSparse) => al.out = "center"
    /\ (~RatioBelowHalf /\ ~IsSparse /\ RatioAboveFourFifths)
         => al.out = "top"
    /\ (~RatioBelowHalf /\ ~IsSparse /\ ~RatioAboveFourFifths)
         => al.out = (IF SomeLineOver50 THEN "top" ELSE "center")

\* Sparse content taller than 0.8 of the region is centered
C22_Witness ==
  /\ al.done
  /\ IsSparse /\ RatioAboveFourFifths
  /\ al.out = "center"

\* ------------------------------------------------------------------------
\* More claims about the wrapped-line list (checked under SpecWrap)
\* ------------------------------------------------------------------------

\* The wrapped-line list cut at its markers: the lines before the first
\* marker, between consecutive markers, and after the last
RECURSIVE LinesBetweenMarkers(_, _)
LinesBetweenMarkers(lines, groups) ==
  IF lines = <<>> THEN groups
  ELSE IF Head(lines).isParagraphSpace
       THEN LinesBetweenMarkers(Tail(lines), Append(groups, <<>>))
       ELSE LinesBetweenMarkers(
              Tail(lines),
              [groups EXCEPT ![Len(groups)] = Append(@, Head(lines))])

\* The texts of the lines that are not markers, in order
RECURSIVE TextsOfLines(_)
TextsOfLines(lines) ==
  IF lines = <<>> THEN <<>>
  ELSE (IF Head(lines).isParagraphSpace THEN <<>> ELSE <<Head(lines).text>>)
       \o TextsOfLines(Tail(lines))

\* C23: exactly one isParagraphSpace marker with empty text precedes each
\* paragraph except the first, a marker never yields a text run, and a
\* paragraph with zero words contributes zero text lines.
C23_OneMarkerBetweenParagraphs ==
  (wrap.done /\ wrap.out.inserted) =>
    LET lines == wrap.out.wrappedLines
        groups == LinesBetweenMarkers(lines, <<<<>>>>)
    IN /\ Len(groups) = Len(wrap.out.paragraphs)
       /\ \A i \in 1..Len(lines) :
            lines[i].isParagraphSpace <=> lines[i].text = <<>>
       /\ \A p \in 1..Len(groups) :
            WordsOf(wrap.out.paragraphs[p].text) = <<>> => groups[p] = <<>>
       /\ [i \in 1..Len(wrap.out.textObjects) |->
             wrap.out.textObjects[i].text] = TextsOfLines(lines)

\* Three paragraphs, the middle one without a word: two markers in a row
C23_Witness ==
  /\ wrap.done /\ wrap.out.inserted
  /\ Len(wrap.out.paragraphs) = 3
  /\ WordsOf(wrap.out.paragraphs[2].text) = <<>>
  /\ Len(wrap.out.wrappedLines) = 4
  /\ wrap.out.wrappedLines[2].isParagraphSpace
  /\ wrap.out.wrappedLines[3].isParagraphSpace
  /\ Len(wrap.out.textObjects) = 2

\* ------------------------------------------------------------------------
\* Termination of readImageFile (checked under SpecCacheFair)
\* ------------------------------------------------------------------------

\* C24: readImageFile terminates for every file size: for any cache
\* contents and any length of the file read, including a file larger than
\* the 100 MB budget, the eviction loop ends and the call returns or throws.
C24_ReadImageFileTerminates == (rd.pc = "loop") ~> (rd.pc = "idle")

\* ------------------------------------------------------------------------
\* Claims about the "run-insert" reply (checked under SpecIpc)
\* ------------------------------------------------------------------------

\* Runs whose reply is on its way to the page
RepliesInFlight == {ipc.replies[i] : i \in 1..Len(ipc.replies)}

\* C25: the "run-insert" reply that clears the loading state and shows the
\* success notification is sent only after the run started by that request
\* has finished all its batches; the page is never told of success while
\* images are still being processed.
C25_ReplyAfterRunFinished ==
  \A r \in RepliesInFlight \cup ipc.shown : ipc.runs[r].left = 0

\* ------------------------------------------------------------------------
\* Claims about segments, paragraphs and words (checked under SpecWrap)
\* ------------------------------------------------------------------------

\* The pieces of text between separators, each with the position at which
\* it starts in text
RECURSIVE PiecesWithStart(_, _, _, _)
PiecesWithStart(text, sep, i, piece) ==
  IF i > Len(text)
  THEN <<[text |-> piece, start |-> Len(text) - Len(piece)]>>
  ELSE IF text[i] = sep
       THEN <<[text |-> piece, start |-> i - 1 - Len(piece)]>>
            \o PiecesWithStart(text, sep, i + 1, <<>>)
       ELSE PiecesWithStart(text, sep, i + 1, Append(piece, text[i]))

\* The words of a paragraph that are not empty, each with its own position
RECURSIVE KeepNonEmpty(_)
KeepNonEmpty(pieces) ==
  IF pieces = <<>> THEN <<>>
  ELSE (IF Head(pieces).text = <<>> THEN <<>> ELSE <<Head(pieces)>>)
       \o KeepNonEmpty(Tail(pieces))

WordSpans(text) == KeepNonEmpty(PiecesWithStart(text, " ", 1, <<>>))

\* The color entries of the lines of one paragraph, in order
RECURSIVE ColorEntries(_)
ColorEntries(lines) ==
  IF lines = <<>> THEN <<>>
  ELSE Head(lines).colorSegments \o ColorEntries(Tail(lines))

\* C26: the position used to classify a word is the position of that very
\* occurrence of the word in its paragraph, also when the same word occurs
\* more than once on a line: each word gets the color of the segment that
\* fully covers its own character span.
C26_WordClassifiedAtOwnPosition ==
  (wrap.done /\ wrap.out.inserted) =>
    LET groups == LinesBetweenMarkers(wrap.out.wrappedLines, <<<<>>>>)
    IN \A p \in 1..Len(wrap.out.paragraphs) :
         LET paragraph == wrap.out.paragraphs[p]
             spans == WordSpans(paragraph.text)
             entries == KeepNonEmpty(ColorEntries(groups[p]))
         IN /\ Len(entries) = Len(spans)
            /\ \A k \in 1..Len(spans) :
                 entries[k].color =
                   WordColor(paragraph.colorSegments, spans[k].start,
                             Len(spans[k].text))

\* C27: every color or bold segment of the block is assigned to exactly one
\* paragraph, the one that contains the segment's start character, with its
\* start rebased to that paragraph's own offset, also when two paragraphs
\* have the same text or one occurs inside an earlier one.
C27_SegmentsFollowTheirParagraph ==
  (wrap.done /\ wrap.out.inserted) =>
    LET spans == PiecesWithStart(wrap.textContent.text, "\n", 1, <<>>)
    IN /\ Len(spans) = Len(wrap.out.paragraphs)
       /\ \A p \in 1..Len(spans) :
            /\ wrap.out.paragraphs[p].text = spans[p].text
            /\ wrap.out.paragraphs[p].colorSegments =
                 ParagraphSegments(wrap.textContent.colorSegments,
                                   spans[p].start, Len(spans[p].text))
            /\ wrap.out.paragraphs[p].boldSegments =
                 ParagraphSegments(wrap.textContent.boldSegments,
                                   spans[p].start, Len(spans[p].text))

\* ------------------------------------------------------------------------
\* More claims about findEmptyRegions (checked under SpecFinder)
\* ------------------------------------------------------------------------

\* Grid row g of the image holds a pixel of intensity below 200
RowIsOccupied(image, g) ==
  \E x \in 0..image.width - 1, y \in 0..image.height - 1 :
    y \div 5 = g /\ Pixel(image, x, y) < 200

\* The grid rows inside the vertical extent of a region
RowsInside(region) ==
  (region.y \div 5)..((region.y + region.height) \div 5 - 1)

BottomOfLastLine(out) ==
  LET o == out.textObjects[Len(out.textObjects)]
  IN o.y200 - o.fontSize10 * 10 + LineHeight200(out.plan.normalFontSize)

\* C29: the space counted for a paragraph-space marker in totalTextHeight
\* equals the distance by which the marker advances the y position of the
\* following text runs, so that startY plus totalTextHeight is exactly the
\* bottom of the last positioned line.
C29_TotalHeightIsWhatIsDrawn ==
  (wrap.done /\ wrap.out.inserted /\ wrap.out.textObjects # <<>>) =>
    wrap.out.startY200 + wrap.out.totalTextHeight200
      = BottomOfLastLine(wrap.out)

\* ------------------------------------------------------------------------
\* Claims about the final summary (checked under SpecBatch)
\* ------------------------------------------------------------------------

\* The images with a text block that wrote its output file without error
ImagesWithOutput == {i \in ImageIds : txt[i].ok > 0}

\* C30: in the final summary an image is counted as successful exactly when
\* at least one of its text blocks produced an output file without error;
\* successful never exceeds completed, and completed never exceeds the
\* number of images.
C30_SuccessfulCountsImagesWithOutput ==
  /\ successful <= completed
  /\ completed <= Len(images)
  /\ bpc = "done" =>
       /\ \A i \in ImageIds : img[i].result <=> i \in ImagesWithOutput
       /\ successful = Cardinality(ImagesWithOutput)

====
